---- MODULE Spec2Model ----
(***************************************************************************)
(* ofs-convert: in-place FAT32 -> ext4 conversion.                         *)
(*                                                                         *)
(* The volume geometry is scaled down: a byte of the model stands for      *)
(* ByteScale bytes of a block bitmap, a block holds InodesPerBlock inodes  *)
(* and DescsPerBlock group descriptors, and a                              *)
(* group has InodesPerGroup inodes.  Cluster numbers, block numbers and    *)
(* the arithmetic between them are those of the code.                      *)
(***************************************************************************)
EXTENDS Integers, Sequences, FiniteSets, TLC

VARIABLES
    pc,                 \* position of main()
    exit_status,        \* -1 while running, else the process exit status
    boot_sector,        \* struct boot_sector (the fields the converter reads)
    sb,                 \* struct ext4_super_block (the fields the converter uses)
    fat,                \* the FAT: cluster number -> entry
    allocator,          \* extent_allocator
    allocation_bitmap,  \* the set of cluster numbers whose bit is set
    issued,             \* history: the extents allocate_extent has returned, in order
    volume,             \* the input: the tree and its layout on the clusters
    image,              \* the data region: cluster number -> content
    write_stream,       \* StreamArchiver write_stream of main()
    stream,             \* the elements of the archiver, in the order written
    stack,              \* the frames of the calls of traverse, innermost last
    written,            \* history: the clusters written to during the traversal
    group_descs,        \* group_descs, with the bitmaps the descriptors point to
    inodes,             \* the inode tables: inode number -> inode
    first_free_inode_no,
    read_stream,        \* StreamArchiver read_stream of main()
    build_stack,        \* the frames of the calls of build_ext4_metadata_tree
    wlog,               \* history: the blocks written since init_ext4_group_descs
    registered,         \* history: the calls of add_extent_to_block_bitmap
    agg,                \* a call of aggregate_extents: its locals and the extents it closed
    search,             \* a search of the blocked extents: its arguments, i, and the extents returned
    sar                 \* the archiver's pages as memory, and the history of its writes and reads

conversion_vars == <<volume, image, write_stream, stream, stack, written, group_descs, inodes,
                     first_free_inode_no, read_stream, build_stack, wlog, registered, agg,
                     search, sar>>

vars == <<pc, exit_status, boot_sector, sb, fat, allocator, allocation_bitmap, issued,
          conversion_vars>>

(***************************************************************************)
(* Bounds of the model                                                     *)
(***************************************************************************)
ByteScale == 1024        \* bytes of a block bitmap that one modelled bit-octet stands for
InodesPerBlock == 16     \* block_size() / sb.s_inode_size
DescsPerBlock == 16      \* block_size() / sb.s_desc_size
InodesPerGroup == 12     \* sb.s_inodes_per_group
MaxSectors == 13         \* largest partition, in sectors
MaxRequest == 2          \* largest max_length handed to allocate_extent
DentriesPerCluster == 2  \* meta_info.dentries_per_cluster
MaxStart == 2            \* a layout starts at most this far into the data region
PageSize == 128          \* pageSize, the bytes of an archiver page
VolumeBlocks == 40       \* largest volume converted, in blocks
LeafEntries == 5         \* max_entries(), the extents a tree block holds
MaxExtents == 7          \* most clusters of the scattered file
MaxSbBlocks == 192       \* largest partition init_ext4_sb is looked at on, in blocks
MaxWrites == 6           \* most appends and cuts of the archiver looked at on its own
DirScale == 32           \* bytes of a directory block that one modelled byte stands for

(***************************************************************************)
(* Program constants                                                       *)
(***************************************************************************)
FAT_START_INDEX == 2
FREE_CLUSTER == 0
FAT_END_OF_CHAIN == 268435448
EXT4_MAX_BLOCKS_PER_GROUP == 65528
EXT4_FIRST_NON_RSV_INODE == 11
EXT4_MAX_INIT_EXTENT_LEN == 32768
LFN_ENTRY_LENGTH == 13
SizeofPage == 8          \* sizeof(Page)
SizeofHeader == 8        \* sizeof(StreamArchiver::Header)
SizeofDentry == 32       \* sizeof(fat_dentry)
SizeofExtent == 12       \* sizeof(fat_extent)
SizeofCount == 4         \* sizeof(uint32_t)
EXT4_ROOT_INODE == 2
EXT4_LOST_FOUND_INODE == 11
EXT4_NAME_LEN == 255

min(a, b) == IF a < b THEN a ELSE b

ceildiv(a, b) == (a + b - 1) \div b

(***************************************************************************)
(* util.h.  A lo/hi pair holds a value in two 16-bit halves; the           *)
(* arithmetic wraps as that of the uint32_t it stands for.                 *)
(***************************************************************************)
lo_hi(lo, hi) == [lo |-> lo, hi |-> hi]

set_lo_hi(value) == lo_hi(value % 65536, (value \div 65536) % 65536)

incr_lo_hi(p, diff) == lo_hi((p.lo + diff) % 65536, (p.hi + (p.lo + diff) \div 65536) % 65536)

decr_lo_hi(p, diff) == lo_hi((p.lo - diff) % 65536, (p.hi + (p.lo - diff) \div 65536) % 65536)

bitmap_set_bit(bitmap, bit_num) == bitmap \cup {bit_num}

\* bitmap_set_bits that sets the bit at end as well
bitmap_set_bits_inclusive(bitmap, begin, end) == bitmap \cup (begin..end)

bitmap_set_bits(bitmap, begin, end) == bitmap \cup (begin..(end - 1))

(***************************************************************************)
(* fat.cpp                                                                 *)
(***************************************************************************)
sector_count == boot_sector.sector_count

sectors_before_data ==
    boot_sector.sectors_before_fat + boot_sector.sectors_per_fat * boot_sector.fat_count

data_cluster_count ==
    ((sector_count - sectors_before_data) \div boot_sector.sectors_per_cluster) + FAT_START_INDEX

fat_cl_to_e4blk(cluster_no) ==
    (cluster_no - FAT_START_INDEX) + sectors_before_data \div boot_sector.sectors_per_cluster

\* returns 0 if block is before the first data cluster
e4blk_to_fat_cl(block_no) ==
    LET cluster_no == block_no + FAT_START_INDEX
                        - sectors_before_data \div boot_sector.sectors_per_cluster
    IN IF cluster_no < FAT_START_INDEX THEN 0 ELSE cluster_no

is_free_cluster(cluster_entry) == cluster_entry = FREE_CLUSTER

\* ext4.cpp: block_size()
block_size == boot_sector.bytes_per_sector * boot_sector.sectors_per_cluster

(***************************************************************************)
(* ext4.cpp, ext4_bg.cpp: the layout of the block groups                   *)
(***************************************************************************)
block_group_count == ceildiv(sb.s_blocks_count, sb.s_blocks_per_group)

gdt_block_count == ceildiv(block_group_count, DescsPerBlock)

block_group_start(num) == sb.s_blocks_per_group * num + sb.s_first_data_block

block_group_block_count(num) ==
    min(sb.s_blocks_per_group, sb.s_blocks_count - block_group_start(num))

inode_table_blocks == ceildiv(sb.s_inodes_per_group, InodesPerBlock)

block_group_has_sb_copy(bg_num) ==
    bg_num = 0 \/ bg_num = sb.s_backup_bgs[1] \/ bg_num = sb.s_backup_bgs[2]

block_group_overhead_sb(has_sb_copy) ==
    IF has_sb_copy
    THEN 3 + gdt_block_count + sb.s_reserved_gdt_blocks + inode_table_blocks
    ELSE 2 + inode_table_blocks

block_group_overhead(bg_num) == block_group_overhead_sb(block_group_has_sb_copy(bg_num))

\* The superblock as init_ext4_sb leaves it, for a boot sector bs.
init_ext4_sb(bs) ==
    LET bytes_per_block == bs.bytes_per_sector * bs.sectors_per_cluster
        blocks_per_group == min((bytes_per_block * 8) \div ByteScale, EXT4_MAX_BLOCKS_PER_GROUP)
        block_count == bs.sector_count \div bs.sectors_per_cluster
        bg_count == ceildiv(block_count, blocks_per_group)
        \* block_group_overhead(true) where the last group is looked at:
        \* s_reserved_gdt_blocks and s_inodes_per_group are still 0
        overhead == 3 + ceildiv(bg_count, DescsPerBlock)
    IN [s_first_data_block |-> IF bytes_per_block = 1024 THEN 1 ELSE 0,
        s_blocks_per_group |-> blocks_per_group,
        s_blocks_count |-> IF block_count % blocks_per_group < overhead + 50
                           THEN block_count
                           ELSE block_count,
        s_reserved_gdt_blocks |-> 0,
        s_backup_bgs |-> <<IF bg_count > 1 THEN 1 ELSE 0,
                           IF bg_count > 2 THEN bg_count - 1 ELSE 0>>,
        s_inodes_per_group |-> InodesPerGroup,
        s_free_blocks_count_lo |-> lo_hi(0, 0),
        s_free_blocks_count_hi |-> 0,
        s_free_inodes_count |-> lo_hi(0, 0)]

fat_extent(logical_start, length, physical_start) ==
    [logical_start |-> logical_start, length |-> length, physical_start |-> physical_start]

\* meta_extent that leaves the last block of the overhead unblocked
meta_extent_short(i) ==
    LET bg_overhead == block_group_overhead(i) - 1
        bg_start == block_group_start(i)
        start_cluster == e4blk_to_fat_cl(bg_start)
        end_cluster == e4blk_to_fat_cl(bg_start + bg_overhead)
    IN IF start_cluster # 0
       THEN fat_extent(0, bg_overhead, start_cluster)
       ELSE IF end_cluster # 0
            THEN fat_extent(0, end_cluster - FAT_START_INDEX, FAT_START_INDEX)
            ELSE fat_extent(0, 0, 0)

\* The blocked extent of block group i.
meta_extent(i) ==
    LET bg_overhead == block_group_overhead(i)
        bg_start == block_group_start(i)
        start_cluster == e4blk_to_fat_cl(bg_start)
        end_cluster == e4blk_to_fat_cl(bg_start + bg_overhead)
    IN IF start_cluster # 0
       THEN fat_extent(0, bg_overhead, start_cluster)
       ELSE IF end_cluster # 0
            THEN fat_extent(0, end_cluster - FAT_START_INDEX, FAT_START_INDEX)
            ELSE fat_extent(0, 0, 0)

\* bg_count extents and, after them, the end of the filesystem.
create_block_group_meta_extents(bg_count) ==
    [i \in 1..(bg_count + 1) |->
        IF i <= bg_count THEN meta_extent(i - 1)
        ELSE fat_extent(0, 1, data_cluster_count)]

(***************************************************************************)
(* extent-allocator.cpp                                                    *)
(***************************************************************************)
\* set_used with the bit of the neighbouring cluster
set_used_off_by_one(bm, cluster_no) == bm \cup {cluster_no + 1}

set_used(bm, cluster_no) == bm \cup {cluster_no}

\* is_free reading the bit of the cluster before
is_free_of_previous(bm, cluster_no) == cluster_no - 1 \notin bm

is_free(bm, cluster_no) == cluster_no \notin bm

create_allocation_bitmap ==
    {cluster_no \in 0..(FAT_START_INDEX - 1) : TRUE}
      \cup {cluster_no \in FAT_START_INDEX..(data_cluster_count - 1) :
              ~is_free_cluster(fat[cluster_no])}

\* qsort by physical_start of the first count extents.
RECURSIVE insert_sorted(_, _)
insert_sorted(s, e) ==
    IF s = <<>> THEN <<e>>
    ELSE IF s[Len(s)].physical_start <= e.physical_start THEN Append(s, e)
    ELSE Append(insert_sorted(SubSeq(s, 1, Len(s) - 1), e), s[Len(s)])

RECURSIVE sort_prefix(_, _)
sort_prefix(s, count) ==
    IF count = 0 THEN <<>> ELSE insert_sorted(sort_prefix(s, count - 1), s[count])

qsort(s, count) == sort_prefix(s, count) \o SubSeq(s, count + 1, Len(s))

init_extent_allocator(blocked_extents, blocked_extent_count) ==
    [index_in_fat |-> 0,
     blocked_extents |-> qsort(blocked_extents, blocked_extent_count),
     blocked_extent_count |-> blocked_extent_count,
     blocked_extent_current |-> 0]

fs_is_full(a) == a.blocked_extent_current > a.blocked_extent_count

\* can_be_used taking the first cluster of the blocked extent for usable
can_be_used_inclusive(a, bm) ==
    LET index == a.index_in_fat + 1
        current == a.blocked_extents[a.blocked_extent_current + 1]
    IN IF index <= current.physical_start
       THEN [a |-> [a EXCEPT !.index_in_fat = index],
             ret |-> is_free(bm, index), full |-> FALSE]
       ELSE LET a2 == [a EXCEPT !.index_in_fat = current.physical_start + current.length,
                                !.blocked_extent_current = @ + 1]
            IN [a |-> a2, ret |-> FALSE, full |-> a2.blocked_extent_current > a2.blocked_extent_count]

\* One call: the allocator after it, the value returned, and whether it exited.
can_be_used(a, bm) ==
    LET index == a.index_in_fat + 1
        current == a.blocked_extents[a.blocked_extent_current + 1]
    IN IF index < current.physical_start
       THEN [a |-> [a EXCEPT !.index_in_fat = index],
             ret |-> is_free(bm, index), full |-> FALSE]
       ELSE LET a2 == [a EXCEPT !.index_in_fat = current.physical_start + current.length,
                                !.blocked_extent_current = @ + 1]
            IN [a |-> a2, ret |-> FALSE, full |-> fs_is_full(a2)]

\* while(!can_be_used());
RECURSIVE first_usable(_, _)
first_usable(a, bm) ==
    LET again(r) == IF r.full \/ r.ret THEN r ELSE first_usable(r.a, bm)
    IN again(can_be_used(a, bm))

\* while(result.length < max_length && can_be_used()) ...
RECURSIVE extend_result(_, _, _, _)
extend_result(a, bm, result, max_length) ==
    LET body(r) ==
            IF r.full THEN [a |-> r.a, bm |-> bm, result |-> result, full |-> TRUE]
            ELSE IF r.ret
                 THEN extend_result(r.a, set_used(bm, r.a.index_in_fat),
                        [result EXCEPT !.length = r.a.index_in_fat - result.physical_start + 1],
                        max_length)
                 ELSE [a |-> r.a, bm |-> bm, result |-> result, full |-> FALSE]
    IN IF result.length < max_length
       THEN body(can_be_used(a, bm))
       ELSE [a |-> a, bm |-> bm, result |-> result, full |-> FALSE]

\* The allocator and bitmap after the call, the extent returned, and whether
\* the call ended in exit(1) instead of returning.
allocate_extent(a, bm, max_length) ==
    LET from(r) ==
            IF r.full
            THEN [a |-> r.a, bm |-> bm, result |-> fat_extent(0, 0, 0), full |-> TRUE]
            ELSE extend_result(r.a, set_used(bm, r.a.index_in_fat),
                               fat_extent(0, 1, r.a.index_in_fat), max_length)
    IN from(first_usable(a, bm))

(***************************************************************************)
(* The inputs: boot sectors and FATs                                       *)
(***************************************************************************)
BootSectors ==
    [bytes_per_sector : {512, 1024},
     sectors_per_cluster : {1, 2},
     sectors_before_fat : {1, 2},
     sectors_per_fat : {1, 2},
     fat_count : {2},
     sector_count : (MaxSectors - 4)..MaxSectors]

\* set_meta_info refuses a data region that is not cluster aligned, and
\* init_ext4_sb a cluster smaller than 1 KiB.
Convertible(bs) ==
    /\ (bs.sectors_before_fat + bs.sectors_per_fat * bs.fat_count) % bs.sectors_per_cluster = 0
    /\ bs.bytes_per_sector * bs.sectors_per_cluster >= 1024

\* Which clusters a FAT marks used is all the allocator reads of it.
FatsOf(bs) ==
    LET n == ((bs.sector_count - (bs.sectors_before_fat + bs.sectors_per_fat * bs.fat_count))
                \div bs.sectors_per_cluster) + FAT_START_INDEX
    IN {[c \in 0..(n - 1) |-> IF c \in used THEN FAT_END_OF_CHAIN ELSE FREE_CLUSTER] :
          used \in SUBSET (FAT_START_INDEX..(n - 1))}

(***************************************************************************)
(* FAT directory entries (fat.h struct fat_dentry, fat.cpp)                *)
(*                                                                         *)
(* Of the 32 bytes the model keeps the first byte of the name, the         *)
(* attribute byte, the first cluster number and a token standing for the   *)
(* rest of the entry.                                                      *)
(***************************************************************************)
fat_dentry(first, attrs, cluster, id, file_size) ==
    [first |-> first, attrs |-> attrs, cluster |-> cluster, id |-> id, file_size |-> file_size]

\* an all-zero entry
ZeroDentry == fat_dentry(0, 0, 0, 0, 0)

file_cluster_no(dentry) == dentry.cluster

\* dentry->attrs & 0x10
is_dir(dentry) == (dentry.attrs \div 16) % 2 = 1

\* dentry->attrs & 0x0F
is_lfn(dentry) == dentry.attrs % 16 # 0

is_invalid(dentry) == dentry.first = 229

is_dot_dir(dentry) == dentry.first = 46

\* *(uint8_t *) dentry & 0x1F
lfn_entry_sequence_no(dentry) == dentry.first % 32

\* The units read_short_name writes before the terminator: the 8.3 name of
\* an entry of the model is its first byte padded with spaces.
short_units(dentry) == IF dentry.first = 0 THEN <<>> ELSE <<dentry.first>>

\* The units a long-name entry spells, by the token id of the entry: "a" for
\* the token 0, and for e * 10000 + a * 100 + u the euro sign (0x20AC) e
\* times, then "a" a times, then a-umlaut (0xE4) u times.
spelled(id) ==
    IF id = 0 THEN <<97>>
    ELSE [k \in 1..(id \div 10000) |-> 8364]
           \o [k \in 1..((id \div 100) % 100) |-> 97]
           \o [k \in 1..(id % 100) |-> 228]

\* The units lfn_cpy copies before the first that is zero; of an entry that
\* is no long-name entry bytes 1 to 10 are the padding of the 8.3 name, five
\* units 0x2020, and the creation time after them is 0.
lfn_units(dentry) ==
    IF dentry.attrs = 15 THEN spelled(dentry.id)
    ELSE IF dentry.first = 0 THEN <<>>
    ELSE <<8224, 8224, 8224, 8224, 8224>>

(***************************************************************************)
(* The input volumes                                                       *)
(*                                                                         *)
(* A volume is a tree of objects (object 1 is the root directory) laid out *)
(* on the data clusters.  A directory's entries are packed into its        *)
(* clusters, DentriesPerCluster to a cluster, and the rest of its last     *)
(* cluster is zero.                                                        *)
(***************************************************************************)
\* Entries of a directory, as the tree describes them.
EObj(o, first, attrs) == [t |-> "obj", o |-> o, first |-> first, attrs |-> attrs]
ERaw(first, attrs) == [t |-> "raw", o |-> 0, first |-> first, attrs |-> attrs]
\* a long-name entry: o is the token of the units it spells
ELfn(first, token) == [t |-> "lfn", o |-> token, first |-> first, attrs |-> 15]

ODir(entries) == [kind |-> "dir", len |-> 0, entries |-> entries]
OFile(len) == [kind |-> "file", len |-> len, entries |-> <<>>]

\* /F2 (2 clusters), /D3/{., .., F4 (2 clusters)}, /F5 (1 cluster)
TreeNested ==
    <<ODir(<<EObj(2, 65, 32), EObj(3, 68, 16), EObj(5, 69, 32)>>),
      OFile(2),
      ODir(<<ERaw(46, 16), ERaw(46, 16), EObj(4, 70, 32)>>),
      OFile(2),
      OFile(1)>>

\* a deleted entry, a long name of one entry before F2, a read-only F3, an
\* empty file, F4
TreeAttrs ==
    <<ODir(<<ERaw(229, 32), ERaw(65, 15), EObj(2, 70, 32), EObj(3, 65, 33),
             EObj(0, 71, 32), EObj(4, 72, 32)>>),
      OFile(1),
      OFile(1),
      OFile(2)>>

\* F2 and a hidden F3
TreeHidden ==
    <<ODir(<<EObj(2, 70, 32), EObj(3, 66, 34)>>),
      OFile(1),
      OFile(1)>>

\* one file of five clusters and one of two
TreeLong ==
    <<ODir(<<EObj(2, 66, 32), EObj(3, 67, 32)>>),
      OFile(5),
      OFile(2)>>

Trees == {TreeNested, TreeAttrs, TreeHidden, TreeLong}

ObjLen(tree, o) ==
    IF tree[o].kind = "dir"
    THEN IF Len(tree[o].entries) = 0 THEN 1
         ELSE ceildiv(Len(tree[o].entries), DentriesPerCluster)
    ELSE tree[o].len

\* The pieces (object, index in its chain) in the order the layout places
\* them: object after object, or dealt round robin.
RECURSIVE PiecesSeq(_, _)
PiecesSeq(tree, o) ==
    IF o > Len(tree) THEN <<>>
    ELSE [k \in 1..ObjLen(tree, o) |-> <<o, k>>] \o PiecesSeq(tree, o + 1)

RECURSIVE PiecesRound(_, _, _)
PiecesRound(tree, k, maxlen) ==
    IF k > maxlen THEN <<>>
    ELSE LET os == {o \in 1..Len(tree) : ObjLen(tree, o) >= k}
             RECURSIVE Row(_)
             Row(o) == IF o > Len(tree) THEN <<>>
                       ELSE (IF o \in os THEN <<<<o, k>>>> ELSE <<>>) \o Row(o + 1)
         IN Row(1) \o PiecesRound(tree, k + 1, maxlen)

Pieces(tree, deal) ==
    IF deal = "seq" THEN PiecesSeq(tree, 1) ELSE PiecesRound(tree, 1, 1 + Len(tree) + 5)

\* A layout: the first cluster used, the stride between pieces, the deal, and
\* a hole of gap clusters before piece number gap_at.
Layouts ==
    [start : FAT_START_INDEX..(FAT_START_INDEX + MaxStart), stride : {1, 2},
     deal : {"seq", "round"}, gap : {0, 3}, gap_at : {3}]

PieceCluster(lay, i) ==
    lay.start + (i - 1) * lay.stride + (IF i >= lay.gap_at THEN lay.gap ELSE 0)

\* The cluster of piece k of object o.
ClusterOfPiece(tree, lay, o, k) ==
    LET ps == Pieces(tree, lay.deal)
        i == CHOOSE j \in 1..Len(ps) : ps[j] = <<o, k>>
    IN PieceCluster(lay, i)

Chain(tree, lay, o) == [k \in 1..ObjLen(tree, o) |-> ClusterOfPiece(tree, lay, o, k)]

LastClusterOf(tree, lay) == PieceCluster(lay, Len(Pieces(tree, lay.deal)))

\* The directory entry an entry of the tree stands for.
DentryOf(tree, lay, e) ==
    IF e.t = "obj" /\ e.o # 0
    THEN fat_dentry(e.first, e.attrs, ClusterOfPiece(tree, lay, e.o, 1), e.o,
                    tree[e.o].len * block_size)
    ELSE IF e.t = "lfn" THEN fat_dentry(e.first, e.attrs, 0, e.o, 0)
    ELSE fat_dentry(e.first, e.attrs, 0, 0, 0)

\* Content of a cluster: free, payload of a file (tok names the bytes), or a
\* cluster of directory entries.
Content(kind, tok, ents) == [kind |-> kind, tok |-> tok, ents |-> ents]

FreeContent == Content("free", 0, <<>>)

DirCluster(tree, lay, o, k) ==
    [j \in 1..DentriesPerCluster |->
        LET n == (k - 1) * DentriesPerCluster + j
        IN IF n <= Len(tree[o].entries) THEN DentryOf(tree, lay, tree[o].entries[n])
           ELSE ZeroDentry]

ImageOf(tree, lay, n) ==
    [c \in FAT_START_INDEX..(n - 1) |->
        LET ps == Pieces(tree, lay.deal)
            is == {i \in 1..Len(ps) : PieceCluster(lay, i) = c}
        IN IF is = {} THEN FreeContent
           ELSE LET p == ps[CHOOSE i \in is : TRUE]
                IN IF tree[p[1]].kind = "dir"
                   THEN Content("dir", 0, DirCluster(tree, lay, p[1], p[2]))
                   ELSE Content("data", c, <<>>)]

FatOf(tree, lay, n) ==
    [c \in 0..(n - 1) |->
        LET ps == Pieces(tree, lay.deal)
            is == {i \in 1..Len(ps) : PieceCluster(lay, i) = c}
        IN IF is = {} THEN FREE_CLUSTER
           ELSE LET p == ps[CHOOSE i \in is : TRUE]
                IN IF p[2] = ObjLen(tree, p[1]) THEN FAT_END_OF_CHAIN
                   ELSE ClusterOfPiece(tree, lay, p[1], p[2] + 1)]

(***************************************************************************)
(* The state the conversion works on, as one record m:                     *)
(*   a, bm      the extent allocator and the allocation bitmap             *)
(*   image      the data region, cluster number -> content                 *)
(*   ws         the write stream (struct StreamArchiver)                   *)
(*   stream     the elements of the archiver, in the order written         *)
(*   issued     the extents allocate_extent has returned                   *)
(*   written    the clusters written to                                    *)
(*   st         "ok", or how the process ended: "full" (exit(1) of         *)
(*              can_be_used) or "segv" (a null pointer was dereferenced)   *)
(*   ret        the extent returned by the last allocate_extent            *)
(* An operation on a record whose st is not "ok" does nothing: the process *)
(* is gone.                                                                *)
(***************************************************************************)
M_allocate_extent(m, max_length) ==
    LET returned(r) ==
            [m EXCEPT !.a = r.a, !.bm = r.bm, !.ret = r.result,
                      !.st = IF r.full THEN "full" ELSE "ok",
                      !.issued = IF r.full THEN @ ELSE Append(@, r.result)]
    IN IF m.st # "ok" THEN m
       ELSE returned(allocate_extent(m.a, m.bm, max_length))

\* memcpy_clusters with source and destination exchanged
memcpy_clusters_swapped(m, dst, src, length) ==
    [m EXCEPT !.image = [c \in DOMAIN m.image |->
                            IF src <= c /\ c < src + length /\ (dst + (c - src)) \in DOMAIN m.image
                            THEN m.image[dst + (c - src)] ELSE m.image[c]],
              !.written = @ \cup (src..(src + length - 1))]

\* memcpy(cluster_start(dst), cluster_start(src), length * cluster_size)
memcpy_clusters(m, dst, src, length) ==
    [m EXCEPT !.image = [c \in DOMAIN m.image |->
                            IF dst <= c /\ c < dst + length /\ (src + (c - dst)) \in DOMAIN m.image
                            THEN m.image[src + (c - dst)] ELSE m.image[c]],
              !.written = @ \cup (dst..(dst + length - 1))]

(***************************************************************************)
(* stream-archiver.cpp                                                     *)
(*                                                                         *)
(* An element is kept with its type t, its value (n, d or e by type) and   *)
(* the page pg it lies in.  A pointer into the archiver is the index of    *)
(* the element in stream; StreamArchiver.pos is the index of the element   *)
(* that ends at (page, offsetInPage).                                      *)
(***************************************************************************)
Item(t, n, d, e, pg) == [t |-> t, n |-> n, d |-> d, e |-> e, pg |-> pg]

NullItem == Item("null", 0, ZeroDentry, fat_extent(0, 0, 0), 0)

StreamArchiver(page, offsetInPage, elementIndex, header, pos) ==
    [page |-> page, offsetInPage |-> offsetInPage, elementIndex |-> elementIndex,
     header |-> header, pos |-> pos]

PageContent == Content("page", 0, <<>>)

allocatePage(m) ==
    LET zeroed(m1) ==
            IF m1.st # "ok" THEN m1
            ELSE [m1 EXCEPT !.image[m1.ret.physical_start] = PageContent,
                            !.written = @ \cup {m1.ret.physical_start}]
    IN zeroed(M_allocate_extent(m, 1))

\* iterateStreamArchiver(stream, true, elementLength, elementCount), and the
\* store through the pointer it returns
sa_insert(m, elementLength, elementCount, item) ==
    LET spill == m.ws.offsetInPage + elementLength > PageSize
        offsetInPage == IF spill THEN SizeofPage ELSE m.ws.offsetInPage
        store(m1, page) ==
            IF m1.st # "ok" THEN m1
            ELSE [m1 EXCEPT !.ws = StreamArchiver(page, offsetInPage + elementLength,
                                                  m.ws.elementIndex + elementCount,
                                                  m.ws.header, Len(m.stream) + 1),
                            !.stream = Append(@, [item EXCEPT !.pg = page]),
                            !.written = @ \cup {m.ws.page, page}]
        on_page(m1) == store(m1, IF spill THEN m1.ret.physical_start ELSE m.ws.page)
    IN IF m.st # "ok" THEN m
       ELSE on_page(IF spill THEN allocatePage(m) ELSE m)

cutStreamArchiver(m) ==
    LET first_page(p) ==
            IF p.st # "ok" THEN p
            ELSE [p EXCEPT !.ws.page = p.ret.physical_start, !.ws.offsetInPage = SizeofPage]
        new_header(m2) == IF m2.st # "ok" THEN m2 ELSE [m2 EXCEPT !.ws.header = Len(m2.stream)]
        insert_header(m1) ==
            IF m1.st # "ok" THEN m1
            ELSE new_header(sa_insert([m1 EXCEPT !.ws.elementIndex = 0], SizeofHeader, 0,
                                      Item("hdr", -1, ZeroDentry, fat_extent(0, 0, 0), 0)))
    IN IF m.st # "ok" THEN m
       ELSE insert_header(IF m.ws.header # 0 /\ m.ws.page # 0
                          THEN [m EXCEPT !.stream[m.ws.header].n = m.ws.elementIndex,
                                         !.written = @ \cup {m.stream[m.ws.header].pg}]
                          ELSE first_page(allocatePage(m)))

\* An element read where the page was overwritten since reads as zero bytes.
item_at(m, i) ==
    IF i > Len(m.stream) THEN NullItem
    ELSE IF m.image[m.stream[i].pg].kind = "page" THEN m.stream[i]
    ELSE Item(m.stream[i].t, 0, ZeroDentry, fat_extent(0, 0, 0), m.stream[i].pg)

\* iterateStreamArchiver(stream, false, elementLength, 1): the reader after
\* the call and the element returned (NullItem for NULL).
getNext(m, r, elementLength) ==
    LET elementIndex == r.elementIndex + 1
        step(len) ==
            IF r.offsetInPage + len > PageSize THEN SizeofPage + len ELSE r.offsetInPage + len
        page == IF r.pos + 1 <= Len(m.stream) THEN m.stream[r.pos + 1].pg ELSE r.page
    IN IF elementIndex > item_at(m, r.header).n
       THEN [r |-> StreamArchiver(page, step(SizeofHeader), 0, r.pos + 1, r.pos + 1),
             item |-> NullItem]
       ELSE [r |-> StreamArchiver(page, step(elementLength), elementIndex, r.header, r.pos + 1),
             item |-> item_at(m, r.pos + 1)]

init_stream_archiver(m) == cutStreamArchiver([m EXCEPT !.ws = StreamArchiver(0, 0, 0, 0, 0)])

(***************************************************************************)
(* extent_iterator.cpp.  The iterator carries the reader it points to.     *)
(***************************************************************************)
init(m, r) ==
    LET at(g) == [current_cluster |-> 0, current_extent |-> g.item, extent_stream |-> g.r]
    IN at(getNext(m, r, SizeofExtent))

RECURSIVE next_cluster_no(_, _)
next_cluster_no(m, iterator) ==
    IF iterator.current_extent.t = "null" THEN [iterator |-> iterator, ret |-> 0]
    ELSE IF iterator.current_cluster >= iterator.current_extent.e.length
         THEN next_cluster_no(m, init(m, iterator.extent_stream))
         ELSE [iterator |-> [iterator EXCEPT !.current_cluster = @ + 1],
               ret |-> iterator.current_extent.e.physical_start + iterator.current_cluster]

(***************************************************************************)
(* The traversal of the FAT tree                                           *)
(***************************************************************************)
\* current_cluster is the cluster number, 0 for NULL
init_read_state(m, iterator) ==
    LET at(n) == [iterator |-> n.iterator, cluster_dentry |-> 0, current_cluster |-> n.ret]
    IN at(next_cluster_no(m, iterator))

\* A pointer to a directory entry: NULL, or the entry pointed to.
Ptr(d) == [null |-> FALSE, d |-> d]
NullPtr == [null |-> TRUE, d |-> ZeroDentry]

\* Entry j of a cluster; bytes that are no directory entries read as zero.
dentry_at(m, cluster_no, j) ==
    IF cluster_no \in DOMAIN m.image /\ m.image[cluster_no].kind = "dir"
    THEN m.image[cluster_no].ents[j + 1]
    ELSE ZeroDentry

RECURSIVE next_dentry(_, _)
next_dentry(m, state) ==
    LET read(s1) ==
            IF s1.current_cluster = 0 THEN [state |-> s1, ret |-> NullPtr]
            ELSE LET ret == dentry_at(m, s1.current_cluster, s1.cluster_dentry)
                     s2 == [s1 EXCEPT !.cluster_dentry = @ + 1]
                 IN IF is_invalid(ret) \/ is_dot_dir(ret) THEN next_dentry(m, s2)
                    ELSE [state |-> s2, ret |-> Ptr(ret)]
    IN read(IF state.cluster_dentry >= DentriesPerCluster
            THEN init_read_state(m, state.iterator) ELSE state)

is_dir_table_end(p) == p.null \/ p.d.first = 0

\* The index in stream of the element reserved is Len(m.stream) + 1.
RECURSIVE reserve_name(_, _)
reserve_name(m, count) ==
    IF count = 0 THEN cutStreamArchiver(m)
    ELSE reserve_name(sa_insert(m, LFN_ENTRY_LENGTH * 2, 1,
                                Item("name", 0, ZeroDentry, fat_extent(0, 0, 0), 0)),
                      count - 1)

reserve_dentry(m) ==
    cutStreamArchiver(sa_insert(m, SizeofDentry, 1,
                                Item("dentry", 0, ZeroDentry, fat_extent(0, 0, 0), 0)))

\* *reserve_extent(write_stream) = extent
reserve_extent(m, extent) ==
    sa_insert(m, SizeofExtent, 1, Item("extent", 0, ZeroDentry, extent, 0))

\* reserve_children_count leaving the count in the group of what follows
reserve_children_count_uncut(m, n) ==
    sa_insert(m, SizeofCount, 1, Item("count", n, ZeroDentry, fat_extent(0, 0, 0), 0))

\* *reserve_children_count(write_stream) = n
reserve_children_count(m, n) ==
    cutStreamArchiver(sa_insert(m, SizeofCount, 1,
                                Item("count", n, ZeroDentry, fat_extent(0, 0, 0), 0)))

\* the logical start of a resettled fragment, without the clusters resettled before it
logical_start_of_input(input_extent, i) == input_extent.logical_start

\* fragment.logical_start = input_extent.logical_start + i
fragment_logical_start(input_extent, i) == input_extent.logical_start + i

RECURSIVE resettle_extent(_, _, _)
resettle_extent(m, input_extent, i) ==
    LET copy(m2, fragment) ==
            IF m2.st # "ok" THEN m2
            ELSE resettle_extent(
                    memcpy_clusters(m2, fragment.physical_start,
                                    input_extent.physical_start + i, fragment.length),
                    input_extent, i + fragment.length)
        reserve(m1, fragment) == copy(reserve_extent(m1, fragment), fragment)
        allocated(m1) ==
            reserve(m1, [m1.ret EXCEPT !.logical_start = fragment_logical_start(input_extent, i)])
    IN IF m.st # "ok" \/ i >= input_extent.length THEN m
       ELSE allocated(M_allocate_extent(m, input_extent.length - i))

\* The index of the first blocked extent that does not end before the address.
RECURSIVE find_first_blocked_extent_from(_, _, _, _)
find_first_blocked_extent_from(a, physical_address, begin, end) ==
    IF begin < end
    THEN LET mid == (begin + end) \div 2
             blocked_extent == a.blocked_extents[mid + 1]
         IN IF blocked_extent.physical_start + blocked_extent.length < physical_address
            THEN find_first_blocked_extent_from(a, physical_address, mid + 1, end)
            ELSE find_first_blocked_extent_from(a, physical_address, begin, mid)
    ELSE begin

\* find_first_blocked_extent searching from the second blocked extent on
find_first_blocked_extent_second(a, physical_address) ==
    find_first_blocked_extent_from(a, physical_address, 1, a.blocked_extent_count)

\* find_first_blocked_extent passing over an extent that ends at the address
find_first_blocked_extent_after(a, physical_address) ==
    find_first_blocked_extent_from(a, physical_address + 1, 0, a.blocked_extent_count)

find_first_blocked_extent(a, physical_address) ==
    find_first_blocked_extent_from(a, physical_address, 0, a.blocked_extent_count)

\* i after the call, and the extent returned (null for NULL)
find_next_blocked_extent(a, i, physical_end) ==
    IF i >= a.blocked_extent_count
    THEN [i |-> i, null |-> TRUE, e |-> fat_extent(0, 0, 0)]
    ELSE LET blocked_extent == a.blocked_extents[i + 1]
         IN IF physical_end < blocked_extent.physical_start
            THEN [i |-> i + 1, null |-> TRUE, e |-> fat_extent(0, 0, 0)]
            ELSE [i |-> i + 1, null |-> FALSE, e |-> blocked_extent]

RECURSIVE find_blocked_extent_fragments_from(_, _, _, _)
find_blocked_extent_fragments_from(m, input_extent, fragment_physical_start, blocked_extent) ==
    LET input_physical_end == input_extent.physical_start + input_extent.length
        is_blocked == ~blocked_extent.null
                        /\ blocked_extent.e.physical_start <= fragment_physical_start
        blocked_physical_end == blocked_extent.e.physical_start + blocked_extent.e.length
        fragment_physical_end ==
            IF is_blocked
            THEN IF blocked_physical_end < input_physical_end
                 THEN blocked_physical_end ELSE input_physical_end
            ELSE IF ~blocked_extent.null THEN blocked_extent.e.physical_start
                 ELSE input_physical_end
        next_blocked == IF is_blocked
                        THEN find_next_blocked_extent(m.a, blocked_extent.i, input_physical_end)
                        ELSE blocked_extent
        fragment == fat_extent(
            input_extent.logical_start + (fragment_physical_start - input_extent.physical_start),
            fragment_physical_end - fragment_physical_start,
            fragment_physical_start)
    IN IF m.st # "ok" \/ ~(fragment_physical_start < input_physical_end) THEN m
       ELSE find_blocked_extent_fragments_from(
               IF is_blocked THEN resettle_extent(m, fragment, 0)
               ELSE reserve_extent(m, fragment),
               input_extent, fragment_physical_end, next_blocked)

find_blocked_extent_fragments(m, input_extent) ==
    LET i == find_first_blocked_extent(m.a, input_extent.physical_start)
    IN find_blocked_extent_fragments_from(
          m, input_extent, input_extent.physical_start,
          find_next_blocked_extent(m.a, i, input_extent.physical_start + input_extent.length))

\* has_max_length one cluster late
has_max_length_late(current_extent) == current_extent.length = EXT4_MAX_INIT_EXTENT_LEN + 1

has_max_length(current_extent) == current_extent.length = EXT4_MAX_INIT_EXTENT_LEN

RECURSIVE aggregate_extents_from(_, _, _)
aggregate_extents_from(m, current_extent, next_cluster_no_) ==
    LET is_end == next_cluster_no_ >= FAT_END_OF_CHAIN
        is_consecutive ==
            next_cluster_no_ = current_extent.physical_start + current_extent.length
        flush == is_end \/ ~is_consecutive \/ has_max_length(current_extent)
        next_extent ==
            IF flush
            THEN fat_extent(current_extent.logical_start + current_extent.length, 1,
                            next_cluster_no_)
            ELSE [current_extent EXCEPT !.length = @ + 1]
        continue(m1) ==
            IF m1.st # "ok" \/ is_end THEN m1
            ELSE aggregate_extents_from(m1, next_extent, fat[next_cluster_no_])
    IN continue(IF flush THEN find_blocked_extent_fragments(m, current_extent) ELSE m)

aggregate_extents(m, cluster_no) ==
    cutStreamArchiver(IF cluster_no # 0
                      THEN aggregate_extents_from(m, fat_extent(0, 1, cluster_no), fat[cluster_no])
                      ELSE m)

\* read_lfn from name[i] down: the read state after it, the entry returned,
\* what was copied to each name, and whether a null pointer was read through.
RECURSIVE read_lfn(_, _, _, _, _)
read_lfn(m, entry, i, state, names) ==
    IF i < 0 THEN [state |-> state, entry |-> entry, names |-> names, segv |-> FALSE]
    ELSE IF entry.null
         THEN [state |-> state, entry |-> entry, names |-> names, segv |-> TRUE]
         ELSE LET copied(n) ==
                      read_lfn(m, n.ret, i - 1, n.state, [names EXCEPT ![i + 1] = entry.d])
              IN copied(next_dentry(m, state))

\* One pass of the loop of traverse for current_dentry, up to the call of
\* traverse or the reserve_children_count that ends it: the record m after
\* it, the read state, the entry recorded and the reader of its extents.
traverse_entry(m, state, current_dentry) ==
    LET dentry == Len(m.stream) + 1
        has_long_name == is_lfn(current_dentry.d)
        count == IF has_long_name THEN lfn_entry_sequence_no(current_dentry.d) ELSE 1
        aggregated(m3, m4, l) ==
            [m |-> m4, state |-> l.state, entry |-> l.entry.d, read_extent_stream |-> m3.ws]
        filled(m3, l) ==
            aggregated(m3,
                       IF m3.st # "ok" THEN m3
                       ELSE aggregate_extents(m3, file_cluster_no(l.entry.d)),
                       l)
        fill(m2, name, l) ==
            filled(IF m2.st # "ok" THEN m2
                   ELSE IF l.segv \/ l.entry.null THEN [m2 EXCEPT !.st = "segv"]
                   ELSE [m2 EXCEPT
                           !.stream = [k \in 1..Len(m2.stream) |->
                                         IF k = dentry THEN [m2.stream[k] EXCEPT !.d = l.entry.d]
                                         ELSE IF name < k /\ k <= name + count
                                              THEN [m2.stream[k] EXCEPT
                                                      !.d = l.names[k - name],
                                                      !.n = IF has_long_name THEN 1 ELSE 0]
                                              ELSE m2.stream[k]]],
                   l)
        names_reserved(m2, name) ==
            fill(m2, name,
                 IF has_long_name
                 THEN read_lfn(m2, current_dentry, count - 1, state,
                               [k \in 1..count |-> ZeroDentry])
                 ELSE [state |-> state, entry |-> current_dentry,
                       names |-> <<current_dentry.d>>, segv |-> FALSE])
        dentry_reserved(m1) == names_reserved(reserve_name(m1, count), Len(m1.stream))
    IN dentry_reserved(reserve_dentry(m))

\* The frame of a call of traverse: its read state and where its
\* children_count points.
Frame(state, children_count) == [state |-> state, children_count |-> children_count]

\* traverse up to its loop
traverse_enter(m, dir_extent_stream) ==
    LET children_count == Len(m.stream) + 1
        enter(m1) ==
            [m |-> m1, frame |-> Frame(init_read_state(m1, init(m1, dir_extent_stream)),
                                       children_count)]
    IN enter(reserve_children_count(m, 0))

(***************************************************************************)
(* ext4.cpp, ext4_bg.cpp: the group descriptors and what they point to     *)
(*                                                                         *)
(* The record m also carries                                               *)
(*   gd         group_descs, with the block and inode bitmap of each group *)
(*              as the sets of the bits set                                *)
(*   inodes     the inode tables: inode number -> inode                    *)
(*   ffi        first_free_inode_no                                        *)
(*   rs         the read stream of the builder                             *)
(*   wlog       the blocks written since init_ext4_group_descs, in order   *)
(*   registered the calls of add_extent_to_block_bitmap, in order          *)
(*   ub         what an access outside the partition does: "segv", or      *)
(*              "lost" where it lands in mapped memory behind the image    *)
(* and m.st may be "noinode", the exit(1) of add_inode.                    *)
(***************************************************************************)
\* blk_size * 8, the bits of a bitmap block
bitmap_bits == (block_size * 8) \div ByteScale

\* A block is written: outside the partition the access is undefined; in the
\* data region the cluster holds what kind names from now on.
write_block(m, kind, bg, block_no, content) ==
    IF m.st # "ok" THEN m
    ELSE IF block_no >= sb.s_blocks_count
    THEN IF m.ub = "segv" THEN [m EXCEPT !.st = "segv"] ELSE m
    ELSE LET c == e4blk_to_fat_cl(block_no)
             entry == [kind |-> kind, bg |-> bg, block |-> block_no]
         IN IF c \in DOMAIN m.image
            THEN [m EXCEPT !.image[c] = content, !.wlog = Append(@, entry)]
            ELSE [m EXCEPT !.wlog = Append(@, entry)]

MetaContent == Content("meta", 0, <<>>)

RECURSIVE write_blocks(_, _, _, _, _)
write_blocks(m, kind, bg, block_no, count) ==
    IF count = 0 THEN m
    ELSE write_blocks(write_block(m, kind, bg, block_no, MetaContent),
                      kind, bg, block_no + 1, count - 1)

ext4_group_desc(i) ==
    LET bg_start_block == block_group_start(i)
        block_count == block_group_block_count(i)
        used_inodes == IF i = 0 THEN EXT4_FIRST_NON_RSV_INODE ELSE 0
        has_sb_copy == block_group_has_sb_copy(i)
        bg_overhead == block_group_overhead_sb(has_sb_copy)
        block_bitmap_block ==
            IF has_sb_copy
            THEN bg_start_block + 1 + gdt_block_count + sb.s_reserved_gdt_blocks
            ELSE bg_start_block
    IN [bg_block_bitmap |-> block_bitmap_block,
        bg_inode_bitmap |-> block_bitmap_block + 1,
        bg_inode_table |-> block_bitmap_block + 2,
        bg_free_inodes_count |-> set_lo_hi(sb.s_inodes_per_group - used_inodes),
        bg_free_blocks_count |-> set_lo_hi(block_count - bg_overhead),
        bg_used_dirs_count |-> set_lo_hi(0),
        block_bitmap |-> bitmap_set_bits(bitmap_set_bits({}, 0, bg_overhead),
                                         block_count, bitmap_bits),
        inode_bitmap |-> bitmap_set_bits(bitmap_set_bits({}, 0, used_inodes),
                                         sb.s_inodes_per_group, bitmap_bits)]

\* the loop of init_ext4_group_descs from group i on
RECURSIVE init_ext4_group_descs_from(_, _)
init_ext4_group_descs_from(m, i) ==
    LET group(bg) ==
            write_blocks(
                write_block(
                    write_block([m EXCEPT !.gd = Append(@, bg)],
                                "block_bitmap", i, bg.bg_block_bitmap, MetaContent),
                    "inode_bitmap", i, bg.bg_inode_bitmap, MetaContent),
                "inode_table", i, bg.bg_inode_table, inode_table_blocks)
    IN IF m.st # "ok" \/ i >= block_group_count THEN m
       ELSE init_ext4_group_descs_from(group(ext4_group_desc(i)), i + 1)

init_ext4_group_descs(m) == init_ext4_group_descs_from([m EXCEPT !.gd = <<>>], 0)

\* The block of the inode table that holds inode num_in_bg of group bg_num.
inode_block(m, bg_num, num_in_bg) ==
    m.gd[bg_num + 1].bg_inode_table + num_in_bg \div InodesPerBlock

add_inode(m, inode, inode_num) ==
    LET bg_num == (inode_num - 1) \div sb.s_inodes_per_group
        num_in_bg == (inode_num - 1) % sb.s_inodes_per_group
    IN IF m.st # "ok" THEN m
       ELSE IF bg_num >= block_group_count THEN [m EXCEPT !.st = "noinode"]
       ELSE LET counted(m2) ==
                    IF m2.st # "ok" THEN m2
                    ELSE [m2 EXCEPT
                            !.gd[bg_num + 1].inode_bitmap = bitmap_set_bit(@, num_in_bg),
                            !.inodes = (inode_num :> inode) @@ @,
                            !.gd[bg_num + 1].bg_free_inodes_count = decr_lo_hi(@, 1),
                            !.gd[bg_num + 1].bg_used_dirs_count =
                                 IF inode.is_dir THEN incr_lo_hi(@, 1) ELSE @]
            IN counted(write_block(
                         write_block(m, "inode_bitmap", bg_num,
                                     m.gd[bg_num + 1].bg_inode_bitmap, MetaContent),
                         "inode", bg_num, inode_block(m, bg_num, num_in_bg), MetaContent))

add_reserved_inode(m, inode, inode_num) ==
    LET bg_num == (inode_num - 1) \div sb.s_inodes_per_group
        num_in_bg == (inode_num - 1) % sb.s_inodes_per_group
        counted(m1) ==
            IF m1.st # "ok" THEN m1
            ELSE [m1 EXCEPT !.inodes = (inode_num :> inode) @@ @,
                            !.gd[bg_num + 1].bg_used_dirs_count =
                                 IF inode.is_dir THEN incr_lo_hi(@, 1) ELSE @]
    IN IF m.st # "ok" THEN m
       ELSE counted(write_block(m, "inode", bg_num, inode_block(m, bg_num, num_in_bg),
                                MetaContent))

\* We assume the extent is correct, i.e. only inside a single block group.
\* A group number beyond the descriptors reads behind the array.
add_extent_to_block_bitmap(m, blocks_begin, blocks_end) ==
    LET bg_num == (blocks_begin - sb.s_first_data_block) \div sb.s_blocks_per_group
        bg_block_start == block_group_start(bg_num)
    IN IF m.st # "ok" THEN m
       ELSE IF bg_num < 0 \/ bg_num >= block_group_count
       THEN IF m.ub = "segv" THEN [m EXCEPT !.st = "segv"] ELSE m
       ELSE LET counted(m1) ==
                    IF m1.st # "ok" THEN m1
                    ELSE [m1 EXCEPT
                            !.gd[bg_num + 1].block_bitmap =
                                 bitmap_set_bits(@, blocks_begin - bg_block_start,
                                                 blocks_end - bg_block_start),
                            !.gd[bg_num + 1].bg_free_blocks_count =
                                 decr_lo_hi(@, blocks_end - blocks_begin),
                            !.registered =
                                 Append(@, [begin |-> blocks_begin, end |-> blocks_end,
                                            inode |-> 0, node |-> FALSE])]
            IN counted(write_block(m, "block_bitmap", bg_num,
                                   m.gd[bg_num + 1].bg_block_bitmap, MetaContent))

write_sb_copy(m, bg_num) ==
    LET bg_block_start == block_group_start(bg_num)
    IN write_block(write_block(m, "sb", bg_num, bg_block_start, MetaContent),
                   "gdt", bg_num, bg_block_start + 1, MetaContent)

\* p + q for lo/hi pairs, and the carry out of the 32 bits
add_lo_hi(p, q) == lo_hi((p.lo + q.lo) % 65536, (p.hi + q.hi + (p.lo + q.lo) \div 65536) % 65536)

carry_lo_hi(p, q) == (p.hi + q.hi + (p.lo + q.lo) \div 65536) \div 65536

\* The superblock after the loop of finalize_block_groups_on_disk from group
\* i on: s_free_inodes_count is a uint32_t, s_free_blocks_count a lo/hi pair
\* of two.
RECURSIVE sum_group_counts(_, _, _)
sum_group_counts(s, gd, i) ==
    IF i > Len(gd) THEN s
    ELSE sum_group_counts(
            [s EXCEPT !.s_free_inodes_count = add_lo_hi(@, gd[i].bg_free_inodes_count),
                      !.s_free_blocks_count_lo = add_lo_hi(@, gd[i].bg_free_blocks_count),
                      !.s_free_blocks_count_hi =
                            @ + carry_lo_hi(s.s_free_blocks_count_lo, gd[i].bg_free_blocks_count)],
            gd, i + 1)

\* the three calls of write_sb_copy that end finalize_block_groups_on_disk
finalize_block_groups_on_disk(m) ==
    write_sb_copy(write_sb_copy(write_sb_copy(m, 0), sb.s_backup_bgs[1]), sb.s_backup_bgs[2])

(***************************************************************************)
(* ext4_inode.cpp.  Of an inode the model keeps whether it is a directory, *)
(* its link count, size and i_blocks, and its extent tree root: the header *)
(* and the up to four entries in the inode.                                *)
(***************************************************************************)
init_extent_header == [eh_entries |-> 0, eh_max |-> 4, eh_depth |-> 0, entries |-> <<>>]

ext4_inode(is_dir_, links_count) ==
    [is_dir |-> is_dir_, i_links_count |-> links_count, i_size |-> 0, i_blocks |-> 0,
     ext_header |-> init_extent_header]

save_inode(m, inode) ==
    LET added(m1) == IF m1.st # "ok" THEN m1 ELSE [m1 EXCEPT !.ffi = @ + 1, !.ret_inode = m.ffi]
    IN IF m.st # "ok" THEN m ELSE added(add_inode(m, inode, m.ffi))

build_inode(m, dentry) == save_inode(m, ext4_inode(is_dir(dentry), IF is_dir(dentry) THEN 2 ELSE 1))

build_root_inode(m) == add_reserved_inode(m, ext4_inode(TRUE, 0), EXT4_ROOT_INODE)

build_lost_found_inode(m) == add_reserved_inode(m, ext4_inode(TRUE, 1), EXT4_LOST_FOUND_INODE)

set_size(m, inode_no, size) ==
    IF m.st # "ok" THEN m ELSE [m EXCEPT !.inodes[inode_no].i_size = size]

incr_links_count(m, inode_no) ==
    IF m.st # "ok" THEN m ELSE [m EXCEPT !.inodes[inode_no].i_links_count = @ + 1]

(***************************************************************************)
(* ext4_extent.cpp: the extent tree of an inode.  A node is its header     *)
(* with the sequence of its entries; a node outside the inode is the       *)
(* content of its block.  An index entry is an ext4_extent_idx, and an     *)
(* extent stored where an index entry is expected reads as the index entry *)
(* its bytes spell.                                                        *)
(***************************************************************************)
ext4_extent(ee_block, ee_len, ee_start) ==
    [ee_block |-> ee_block, ee_len |-> ee_len, ee_start |-> ee_start]

ext4_extent_idx(ei_block, ei_leaf) ==
    [ee_block |-> ei_block, ee_len |-> -1, ee_start |-> ei_leaf]

to_ext4_extent(fext) ==
    ext4_extent(fext.logical_start, fext.length, fat_cl_to_e4blk(fext.physical_start))

max_entries == LeafEntries

\* The header of the node in a block; a block that holds no node reads as
\* whatever bytes are there, which the model takes for a leaf without entries.
node_at(m, block_no) ==
    LET c == e4blk_to_fat_cl(block_no)
    IN IF c \in DOMAIN m.image /\ m.image[c].kind = "node" THEN m.image[c].ents[1]
       ELSE [eh_entries |-> 0, eh_max |-> 0, eh_depth |-> 0, entries |-> <<>>]

NodeContent(node) == Content("node", 0, <<node>>)

\* a node with ext appended
append_in_block(header, ext) ==
    [header EXCEPT !.entries = Append(@, ext), !.eh_entries = @ + 1]

\* The history of the calls of add_extent_to_block_bitmap remembers for its
\* last call the inode register_extent was called for, and whether the
\* extent is the block of a tree node (add_to_extent_tree false).
registered_for(m, m1, inode_no, node) ==
    IF m1.st # "ok" \/ Len(m1.registered) = Len(m.registered) THEN m1
    ELSE [m1 EXCEPT !.registered[Len(m1.registered)].inode = inode_no,
                    !.registered[Len(m1.registered)].node = node]

\* register_extent(.., false) that leaves i_blocks alone
register_node_extent_uncounted(m, fext, inode_no) ==
    IF m.st # "ok" THEN m
    ELSE LET eext == to_ext4_extent(fext)
         IN registered_for(m, add_extent_to_block_bitmap(m, eext.ee_start,
                                                         eext.ee_start + eext.ee_len),
                           inode_no, TRUE)

\* register_extent for the block of a tree node: it is not added to the tree
register_node_extent(m, fext, inode_no) ==
    IF m.st # "ok" THEN m
    ELSE LET eext == to_ext4_extent(fext)
             m1 == [m EXCEPT !.inodes[inode_no].i_blocks = @ + (eext.ee_len * block_size) \div 512]
         IN registered_for(m, add_extent_to_block_bitmap(m1, eext.ee_start,
                                                         eext.ee_start + eext.ee_len),
                           inode_no, TRUE)

\* append_to_extent_tree on the root in the inode, for a tree of depth at
\* most 1: the record m after it and whether it succeeded.  The last index
\* entry is read as written; when an extent was stored over it, the child
\* block it names lies far outside the partition.
append_to_extent_tree(m, ext, inode_no) ==
    LET root_header == m.inodes[inode_no].ext_header
        entry_count == root_header.eh_entries
        last_child_entry == root_header.entries[entry_count]
        child_block == last_child_entry.ee_start
        child_header == node_at(m, child_block)
    IN IF root_header.eh_depth = 0
       THEN IF root_header.eh_entries >= root_header.eh_max THEN [m |-> m, success |-> FALSE]
            ELSE [m |-> [m EXCEPT !.inodes[inode_no].ext_header = append_in_block(@, ext)],
                  success |-> TRUE]
       ELSE IF last_child_entry.ee_len # -1
       THEN [m |-> [m EXCEPT !.st = "segv"], success |-> FALSE]
       ELSE IF child_header.eh_entries < child_header.eh_max
       THEN [m |-> write_block(m, "node", 0, child_block,
                               NodeContent(append_in_block(child_header, ext))),
             success |-> TRUE]
       ELSE IF entry_count < root_header.eh_max
       THEN \* append_to_new_idx_path(depth - 1, ...): its loop body never runs, and
            \* the extent is stored at root_header + entry_count
            [m |-> [m EXCEPT !.inodes[inode_no].ext_header.entries[entry_count] = ext],
             success |-> TRUE]
       ELSE [m |-> m, success |-> FALSE]

make_tree_deeper(m, inode_no) ==
    LET linked(m3, root_header, block_no) ==
            IF m3.st # "ok" THEN m3
            ELSE [m3 EXCEPT !.inodes[inode_no].ext_header =
                               [eh_entries |-> 1, eh_max |-> root_header.eh_max,
                                eh_depth |-> root_header.eh_depth + 1,
                                entries |-> <<ext4_extent_idx(0, block_no)>>]]
        copy_root(m2, root_header, block_no) ==
            linked(write_block(m2, "node", 0, block_no,
                               NodeContent([root_header EXCEPT !.eh_max = max_entries])),
                   root_header, block_no)
        registered_(m2, idx_ext) ==
            IF m2.st # "ok" THEN m2
            ELSE copy_root(m2, m2.inodes[inode_no].ext_header,
                           fat_cl_to_e4blk(idx_ext.physical_start))
        allocated(m1) ==
            IF m1.st # "ok" THEN m1
            ELSE registered_(register_node_extent(m1, m1.ret, inode_no), m1.ret)
    IN allocated(M_allocate_extent(m, 1))

add_extent(m, eext, inode_no) ==
    LET deeper(m1) ==
            IF m1.st # "ok" THEN m1 ELSE append_to_extent_tree(m1, eext, inode_no).m
        appended(r) ==
            IF r.m.st # "ok" \/ r.success THEN r.m
            ELSE deeper(make_tree_deeper(r.m, inode_no))
    IN appended(append_to_extent_tree(m, eext, inode_no))

register_extent(m, fext, inode_no) ==
    LET eext == to_ext4_extent(fext)
        added(m1) ==
            IF m1.st # "ok" THEN m1
            ELSE registered_for(
                    m1,
                    add_extent_to_block_bitmap(
                        [m1 EXCEPT !.inodes[inode_no].i_blocks =
                                        @ + (eext.ee_len * block_size) \div 512],
                        eext.ee_start, eext.ee_start + eext.ee_len),
                    inode_no, FALSE)
    IN IF m.st # "ok" THEN m ELSE added(add_extent(m, eext, inode_no))

\* the loop of set_extents
RECURSIVE set_extents_from(_, _)
set_extents_from(m, inode_number) ==
    LET got(g) ==
            IF g.item.t = "null" THEN [m EXCEPT !.rs = g.r]
            ELSE set_extents_from(register_extent([m EXCEPT !.rs = g.r], g.item.e, inode_number),
                                  inode_number)
    IN IF m.st # "ok" THEN m ELSE got(getNext(m, m.rs, SizeofExtent))

\* the model's entries have no file_size; the size set is that of the chain
set_extents(m, inode_number, dentry) ==
    set_extents_from(set_size(m, inode_number, dentry.file_size), inode_number)

(***************************************************************************)
(* ext4_dentry.cpp.  A name is the sequence of the UCS-2 units written to  *)
(* it; name_len counts the bytes of their UTF-8 encoding.                  *)
(***************************************************************************)
next_multiple_of_four(n) == ceildiv(n, 4) * 4

\* the bytes ucs2toutf8 writes for one unit
utf8_bytes(ch) == IF ch < 128 THEN 1 ELSE IF ch < 2048 THEN 2 ELSE 3

\* The units of src, from unit i on, that ucs2toutf8 writes at pos when the
\* destination ends at dest_end.
RECURSIVE ucs2toutf8(_, _, _, _)
ucs2toutf8(pos, dest_end, src, i) ==
    IF i > Len(src) \/ i > LFN_ENTRY_LENGTH THEN <<>>
    ELSE IF pos >= dest_end - (utf8_bytes(src[i]) - 1) THEN <<>>
    ELSE <<src[i]>> \o ucs2toutf8(pos + utf8_bytes(src[i]), dest_end, src, i + 1)

RECURSIVE bytes_written(_)
bytes_written(units) ==
    IF units = <<>> THEN 0 ELSE utf8_bytes(Head(units)) + bytes_written(Tail(units))

ext4_dentry(inode, rec_len, name_len, name) ==
    [inode |-> inode, rec_len |-> rec_len, name_len |-> name_len, name |-> name]

\* The units up to the terminator that traverse stored in a name element:
\* read_short_name of the entry (n is 0) or lfn_cpy of it (n is 1).
segment(item) == IF item.n = 1 THEN lfn_units(item.d) ELSE short_units(item.d)

\* the loop of build_dentry
RECURSIVE build_dentry_from(_, _)
build_dentry_from(m, ext_dentry) ==
    LET converted(m1, units) ==
            build_dentry_from(m1, [ext_dentry EXCEPT !.name = @ \o units,
                                                     !.name_len = @ + bytes_written(units)])
        got(g) ==
            IF g.item.t = "null"
            THEN [m |-> [m EXCEPT !.rs = g.r],
                  dentry |-> [ext_dentry EXCEPT
                                 !.rec_len = next_multiple_of_four(ext_dentry.name_len + 8)]]
            ELSE converted([m EXCEPT !.rs = g.r],
                           ucs2toutf8(ext_dentry.name_len, EXT4_NAME_LEN - 1,
                                      segment(g.item), 1))
    IN got(getNext(m, m.rs, LFN_ENTRY_LENGTH * 2))

build_dentry(m, inode_number) == build_dentry_from(m, ext4_dentry(inode_number, 0, 0, <<>>))

\* name is the units of the string, all below 128
build_special_dentry(inode_no, name) ==
    ext4_dentry(inode_no, next_multiple_of_four(Len(name) + 8), Len(name), name)

build_dot_dir_dentry(dir_inode_no) == build_special_dentry(dir_inode_no, <<46>>)

build_dot_dot_dir_dentry(parent_inode_no) == build_special_dentry(parent_inode_no, <<46, 46>>)

\* "lost+found"
build_lost_found_dentry ==
    build_special_dentry(EXT4_LOST_FOUND_INODE, <<108, 111, 115, 116, 43, 102, 111, 117, 110, 100>>)

(***************************************************************************)
(* tree_builder.cpp.  A directory block is the sequence of the dentries    *)
(* written to it, each with the offset it was written at; previous_dentry  *)
(* is the index of a dentry in the block block_no, 0 for NULL.             *)
(***************************************************************************)
DentryWritePosition(inode_no, block_no, position_in_block, block_count, previous_dentry) ==
    [inode_no |-> inode_no, block_no |-> block_no, position_in_block |-> position_in_block,
     block_count |-> block_count, previous_dentry |-> previous_dentry]

\* block_size() of a directory block of the model
dir_block_size == block_size \div DirScale

\* the dentries in a block
dentries_at(m, block_no) ==
    LET c == e4blk_to_fat_cl(block_no)
    IN IF c \in DOMAIN m.image /\ m.image[c].kind = "e4dir" THEN m.image[c].ents ELSE <<>>

\* memcpy(dentry_space, &dentry, dentry.rec_len) at the write position
write_dentry(m, pos, dentry) ==
    write_block(m, "dir", 0, pos.block_no,
                Content("e4dir", pos.inode_no,
                        Append(dentries_at(m, pos.block_no),
                               [off |-> pos.position_in_block] @@ dentry)))

\* The values of the uint16_t rec_len, in the bytes of the model.
rec_len_range == 65536 \div DirScale

\* previous_dentry->rec_len += block_size() - position_in_block
grow_previous_dentry(m, pos) ==
    IF pos.previous_dentry = 0 THEN m
    ELSE LET ents == dentries_at(m, pos.block_no)
         IN write_block(m, "dir", 0, pos.block_no,
                        Content("e4dir", pos.inode_no,
                                [ents EXCEPT ![pos.previous_dentry].rec_len =
                                                (@ + (dir_block_size - pos.position_in_block))
                                                    % rec_len_range]))

register_dir_extent(m, block_no, logical_no, inode_no) ==
    register_extent(m, fat_extent(logical_no, 1, block_no), inode_no)

\* allocate_block_callback(allocator_data): a block from the extent allocator
allocate_block_callback(m) ==
    LET block(m1) ==
            IF m1.st # "ok" THEN m1
            ELSE [m1 EXCEPT !.ret_block = fat_cl_to_e4blk(m1.ret.physical_start)]
    IN block(M_allocate_extent(m, 1))

\* The record m and the write position after the call.
allocate_block(m, pos) ==
    LET register(m2, pos2) ==
            [m |-> register_dir_extent(m2, pos2.block_no, pos2.block_count - 1, pos2.inode_no),
             pos |-> pos2]
        allocated(m2) ==
            register(m2, DentryWritePosition(pos.inode_no, m2.ret_block, 0,
                                             pos.block_count + 1, 0))
    IN allocated(allocate_block_callback(grow_previous_dentry(m, pos)))

build_dot_dirs(m, pos, parent_inode_no) ==
    LET dot_dentry == build_dot_dir_dentry(pos.inode_no)
        pos1 == [pos EXCEPT !.position_in_block = @ + dot_dentry.rec_len]
        dot_dot_dentry == build_dot_dot_dir_dentry(parent_inode_no)
        both(m3) ==
            [m |-> incr_links_count(m3, parent_inode_no),
             pos |-> [pos1 EXCEPT !.position_in_block = @ + dot_dot_dentry.rec_len,
                                  !.previous_dentry = Len(dentries_at(m3, pos.block_no))]]
    IN both(write_dentry(incr_links_count(write_dentry(m, pos, dot_dentry), pos.inode_no),
                         pos1, dot_dot_dentry))

build_ext4_root(m) ==
    LET allocated(a) == IF a.m.st # "ok" THEN a ELSE build_dot_dirs(a.m, a.pos, EXT4_ROOT_INODE)
    IN allocated(allocate_block(build_root_inode(m),
                                DentryWritePosition(EXT4_ROOT_INODE, 0, 0, 0, 0)))

\* The dentry is appended where the position points to, in a new block if
\* it does not fit.
place_dentry(m, pos, dentry) ==
    LET copied(m1, pos1) ==
            [m |-> m1,
             pos |-> [pos1 EXCEPT !.position_in_block = @ + dentry.rec_len,
                                  !.previous_dentry = Len(dentries_at(m1, pos1.block_no))]]
        fits(a) == copied(write_dentry(a.m, a.pos, dentry), a.pos)
    IN fits(IF dentry.rec_len > dir_block_size - pos.position_in_block
            THEN allocate_block(m, pos) ELSE [m |-> m, pos |-> pos])

\* build_file with the name read from the read stream by build_dentry
build_file(m, f_dentry, pos) ==
    LET named(b, inode_no) == [inode_no |-> inode_no] @@ place_dentry(b.m, pos, b.dentry)
        inode_built(m1) ==
            IF m1.st # "ok" THEN [m |-> m1, pos |-> pos, inode_no |-> 0]
            ELSE named(build_dentry(m1, m1.ret_inode), m1.ret_inode)
    IN inode_built(build_inode(m, f_dentry))

build_regular_file(m, f_dentry, pos) ==
    LET built(f) ==
            [m |-> IF f.m.st # "ok" THEN f.m ELSE set_extents(f.m, f.inode_no, f_dentry),
             pos |-> f.pos]
    IN built(build_file(m, f_dentry, pos))

\* The record m, the write position of the parent and that of the directory.
build_directory(m, f_dentry, parent_pos) ==
    LET dotted(d, f_pos) == [m |-> d.m, parent_pos |-> f_pos, pos |-> d.pos]
        allocated(a, f_pos) ==
            IF a.m.st # "ok" THEN [m |-> a.m, parent_pos |-> f_pos, pos |-> a.pos]
            ELSE dotted(build_dot_dirs(a.m, a.pos, parent_pos.inode_no), f_pos)
        built(f) ==
            IF f.m.st # "ok" THEN [m |-> f.m, parent_pos |-> f.pos, pos |-> f.pos]
            ELSE allocated(allocate_block(f.m, DentryWritePosition(f.inode_no, 0, 0, 0, 0)),
                           f.pos)
    IN built(build_file(m, f_dentry, parent_pos))

finalize_dir(m, pos) ==
    set_size(grow_previous_dentry(m, pos), pos.inode_no, pos.block_count * block_size)

\* The record m and the write position of the root after the call.
build_lost_found(m, pos) ==
    LET dotted(d, root_pos) == [m |-> finalize_dir(d.m, d.pos), pos |-> root_pos]
        allocated(a, root_pos) ==
            IF a.m.st # "ok" THEN [m |-> a.m, pos |-> root_pos]
            ELSE dotted(build_dot_dirs(a.m, a.pos, EXT4_ROOT_INODE), root_pos)
        placed(p) ==
            IF p.m.st # "ok" THEN p
            ELSE allocated(allocate_block(p.m, DentryWritePosition(EXT4_LOST_FOUND_INODE,
                                                                   0, 0, 0, 0)),
                           p.pos)
    IN placed(place_dentry(build_lost_found_inode(m), pos, build_lost_found_dentry))

(***************************************************************************)
(* build_ext4_metadata_tree: the walk of the read stream that calls the    *)
(* builder.  For a directory it passes over the extents of the directory   *)
(* and reads the children count; for each child it reads the dentry, has   *)
(* the inode and the dentry built, and for a file has its extents set and  *)
(* passes over its children count.                                         *)
(***************************************************************************)
\* getNext until it returns NULL
RECURSIVE skip_group(_, _)
skip_group(m, elementLength) ==
    LET got(g) ==
            IF g.item.t = "null" THEN [m EXCEPT !.rs = g.r]
            ELSE skip_group([m EXCEPT !.rs = g.r], elementLength)
    IN IF m.st # "ok" THEN m ELSE got(getNext(m, m.rs, elementLength))

\* The record m after the extents and the children count were read, and the
\* count.
read_children_count(m) ==
    LET got(m1, g) == [m |-> skip_group([m1 EXCEPT !.rs = g.r], SizeofCount), count |-> g.item.n]
        skipped(m1) == got(m1, getNext(m1, m1.rs, SizeofCount))
    IN skipped(skip_group(m, SizeofExtent))

\* The record m after the dentry of the next child was read, and the dentry.
read_child_dentry(m) ==
    LET got(g) == [m |-> skip_group([m EXCEPT !.rs = g.r], SizeofDentry), dentry |-> g.item.d]
    IN got(getNext(m, m.rs, SizeofDentry))

\* The frame of a call of build_ext4_metadata_tree: the write position of
\* its directory and the children still to build.
BuildFrame(pos, children) == [pos |-> pos, children |-> children]

(***************************************************************************)
(* SpecAlloc: the extent allocator on its own                              *)
(***************************************************************************)
InitAlloc ==
    /\ boot_sector \in {bs \in BootSectors : Convertible(bs)}
    /\ sb = init_ext4_sb(boot_sector)
    /\ fat \in FatsOf(boot_sector)
    /\ allocation_bitmap = create_allocation_bitmap
    /\ allocator = init_extent_allocator(create_block_group_meta_extents(block_group_count),
                                         block_group_count)
    /\ issued = <<>>
    /\ pc = "run"
    /\ exit_status = -1
    /\ volume = <<>>
    /\ image = <<>>
    /\ write_stream = StreamArchiver(0, 0, 0, 0, 0)
    /\ stream = <<>>
    /\ stack = <<>>
    /\ written = {}
    /\ group_descs = <<>>
    /\ inodes = <<>>
    /\ first_free_inode_no = EXT4_FIRST_NON_RSV_INODE + 1
    /\ read_stream = StreamArchiver(0, 0, 0, 0, 0)
    /\ build_stack = <<>>
    /\ wlog = <<>>
    /\ registered = <<>>
    /\ agg = <<>>
    /\ search = <<>>
    /\ sar = <<>>

AllocateOk(max_length) ==
    LET r == allocate_extent(allocator, allocation_bitmap, max_length)
    IN /\ pc = "run"
       /\ ~r.full
       /\ allocator' = r.a
       /\ allocation_bitmap' = r.bm
       /\ issued' = Append(issued, r.result)
       /\ UNCHANGED <<pc, exit_status, boot_sector, sb, fat, conversion_vars>>

AllocateFull(max_length) ==
    LET r == allocate_extent(allocator, allocation_bitmap, max_length)
    IN /\ pc = "run"
       /\ r.full
       /\ allocator' = r.a
       /\ allocation_bitmap' = r.bm
       /\ pc' = "exit"
       /\ exit_status' = 1
       /\ UNCHANGED <<boot_sector, sb, fat, issued, conversion_vars>>

NextAlloc ==
    \/ \E max_length \in 1..MaxRequest : AllocateOk(max_length)
    \/ \E max_length \in 1..MaxRequest : AllocateFull(max_length)

SpecAlloc == InitAlloc /\ [][NextAlloc]_vars

(***************************************************************************)
(* SpecSb: init_ext4_sb and the blocked extents on larger partitions       *)
(***************************************************************************)
\* Partitions of 8 KiB and 16 KiB clusters, of one block group and more.
SbBootSectors ==
    {[bytes_per_sector |-> 4096, sectors_per_cluster |-> spc, sectors_before_fat |-> 2,
      sectors_per_fat |-> 1, fat_count |-> 2, sector_count |-> spc * blocks] :
        <<spc, blocks>> \in {<<spc, blocks>> \in {2, 4} \X (1..MaxSbBlocks) :
                                blocks >= (4096 * spc * 8) \div ByteScale}}

\* The state of main() after init_ext4_sb; no cluster of the FAT is used.
InitSb ==
    /\ boot_sector \in SbBootSectors
    /\ sb = init_ext4_sb(boot_sector)
    /\ fat = [c \in 0..(data_cluster_count - 1) |-> FREE_CLUSTER]
    /\ allocation_bitmap = {}
    /\ allocator = [index_in_fat |-> 0, blocked_extents |-> <<>>,
                    blocked_extent_count |-> 0, blocked_extent_current |-> 0]
    /\ issued = <<>>
    /\ pc = "init"
    /\ exit_status = -1
    /\ volume = <<>>
    /\ image = <<>>
    /\ write_stream = StreamArchiver(0, 0, 0, 0, 0)
    /\ stream = <<>>
    /\ stack = <<>>
    /\ written = {}
    /\ group_descs = <<>>
    /\ inodes = <<>>
    /\ first_free_inode_no = EXT4_FIRST_NON_RSV_INODE + 1
    /\ read_stream = StreamArchiver(0, 0, 0, 0, 0)
    /\ build_stack = <<>>
    /\ wlog = <<>>
    /\ registered = <<>>
    /\ agg = <<>>
    /\ search = <<>>
    /\ sar = <<>>

\* init_extent_allocator(create_block_group_meta_extents(bg_count), bg_count)
InitExtentAllocator ==
    /\ pc = "init"
    /\ allocation_bitmap' = create_allocation_bitmap
    /\ allocator' = init_extent_allocator(create_block_group_meta_extents(block_group_count),
                                          block_group_count)
    /\ pc' = "run"
    /\ UNCHANGED <<exit_status, boot_sector, sb, fat, issued, conversion_vars>>

SpecSb == InitSb /\ [][InitExtentAllocator]_vars

(***************************************************************************)
(* Spec: main() on an input volume                                         *)
(***************************************************************************)
\* The boot sectors of the volumes converted; root_cluster_no comes with the
\* layout.
VolumeBootSectors ==
    {[bytes_per_sector |-> g[1], sectors_per_cluster |-> g[2], sectors_before_fat |-> 2,
      sectors_per_fat |-> spf, fat_count |-> 2, sector_count |-> g[2] * blocks,
      root_cluster_no |-> 0] :
        g \in {<<512, 2>>, <<1024, 2>>, <<1024, 4>>}, spf \in {1, 2},
        blocks \in {VolumeBlocks - 13, VolumeBlocks - 6, VolumeBlocks}}

DataClusterCountOf(bs) ==
    ((bs.sector_count - (bs.sectors_before_fat + bs.sectors_per_fat * bs.fat_count))
        \div bs.sectors_per_cluster) + FAT_START_INDEX

Volumes ==
    {[bs |-> [v.bs EXCEPT !.root_cluster_no = ClusterOfPiece(v.tree, v.lay, 1, 1)],
      tree |-> v.tree, lay |-> v.lay] :
        v \in {w \in [bs : VolumeBootSectors, tree : Trees, lay : Layouts] :
                  /\ Convertible(w.bs)
                  /\ LastClusterOf(w.tree, w.lay) < DataClusterCountOf(w.bs)}}

\* The state of main() after init_ext4_sb, on one of the volumes.
InitOn(volumes) ==
    /\ volume \in volumes
    /\ boot_sector = volume.bs
    /\ sb = init_ext4_sb(boot_sector)
    /\ fat = FatOf(volume.tree, volume.lay, data_cluster_count)
    /\ image = ImageOf(volume.tree, volume.lay, data_cluster_count)
    /\ allocator = [index_in_fat |-> 0, blocked_extents |-> <<>>,
                    blocked_extent_count |-> 0, blocked_extent_current |-> 0]
    /\ allocation_bitmap = {}
    /\ issued = <<>>
    /\ write_stream = StreamArchiver(0, 0, 0, 0, 0)
    /\ stream = <<>>
    /\ stack = <<>>
    /\ written = {}
    /\ group_descs = <<>>
    /\ inodes = <<>>
    /\ first_free_inode_no = EXT4_FIRST_NON_RSV_INODE + 1
    /\ read_stream = StreamArchiver(0, 0, 0, 0, 0)
    /\ build_stack = <<>>
    /\ wlog = <<>>
    /\ registered = <<>>
    /\ agg = <<>>
    /\ search = <<>>
    /\ sar = <<>>
    /\ pc = "init"
    /\ exit_status = -1

Init == InitOn(Volumes)

\* What an access outside the partition may do.
UBOutcomes == {"segv", "lost"}

\* The program state as the record the operations work on, and back.
M ==
    [a |-> allocator, bm |-> allocation_bitmap, image |-> image, ws |-> write_stream,
     stream |-> stream, issued |-> issued, written |-> written, st |-> "ok",
     ret |-> fat_extent(0, 0, 0), gd |-> group_descs, inodes |-> inodes,
     ffi |-> first_free_inode_no, rs |-> read_stream, wlog |-> wlog,
     registered |-> registered, ub |-> "segv", ret_inode |-> 0, ret_block |-> 0]

\* exit(1) of can_be_used and of add_inode; a null pointer dereference ends
\* the process with SIGSEGV; main() returns 0.
Store(m, next_pc) ==
    /\ allocator' = m.a
    /\ allocation_bitmap' = m.bm
    /\ image' = m.image
    /\ write_stream' = m.ws
    /\ stream' = m.stream
    /\ issued' = m.issued
    /\ written' = m.written
    /\ group_descs' = m.gd
    /\ inodes' = m.inodes
    /\ first_free_inode_no' = m.ffi
    /\ read_stream' = m.rs
    /\ wlog' = m.wlog
    /\ registered' = m.registered
    /\ agg' = agg
    /\ search' = search
    /\ sar' = sar
    /\ pc' = IF m.st = "ok" THEN next_pc
             ELSE IF m.st \in {"full", "noinode"} THEN "exit" ELSE "crash"
    /\ exit_status' = IF m.st = "ok" THEN (IF next_pc = "done" THEN 0 ELSE exit_status)
                      ELSE IF m.st \in {"full", "noinode"} THEN 1 ELSE 139

\* main(), lines 29 to 34
InitConvert ==
    /\ pc = "init"
    /\ LET bm == create_allocation_bitmap
           a == init_extent_allocator(create_block_group_meta_extents(block_group_count),
                                      block_group_count)
           Archived(m) == Store([m EXCEPT !.rs = m.ws], "aggregate_root")
       IN Archived(init_stream_archiver([M EXCEPT !.a = a, !.bm = bm]))
    /\ UNCHANGED <<boot_sector, sb, fat, volume, stack, build_stack>>

\* aggregate_extents(boot_sector.root_cluster_no, true, &write_stream)
AggregateRoot ==
    /\ pc = "aggregate_root"
    /\ Store(aggregate_extents(M, boot_sector.root_cluster_no), "traverse_root")
    /\ UNCHANGED <<boot_sector, sb, fat, volume, stack, build_stack>>

\* extent_stream is write_stream as init_stream_archiver left it, as is
\* read_stream.
TraverseRoot ==
    /\ pc = "traverse_root"
    /\ LET extent_stream == read_stream
           Entered(t) ==
               /\ Store(t.m, "traverse")
               /\ stack' = IF t.m.st = "ok" THEN <<t.frame>> ELSE stack
       IN Entered(traverse_enter(M, extent_stream))
    /\ UNCHANGED <<boot_sector, sb, fat, volume, build_stack>>

\* One pass of the loop of the innermost traverse: an entry is recorded, and
\* if it is a directory traverse is called on it.  The -1 stored as the
\* children count of a file is 0xFFFFFFFF in the uint32_t.
TraverseEntry ==
    /\ pc = "traverse"
    /\ LET top == stack[Len(stack)]
           Entered(sub, frame) ==
               /\ Store(sub.m, "traverse")
               /\ stack' = IF sub.m.st = "ok"
                           THEN [stack EXCEPT ![Len(stack)] = frame] \o <<sub.frame>>
                           ELSE stack
           Counted(m2, frame) ==
               /\ Store(m2, "traverse")
               /\ stack' = IF m2.st = "ok" THEN [stack EXCEPT ![Len(stack)] = frame] ELSE stack
           File(m1, frame) ==
               Counted(IF m1.st # "ok" THEN m1
                       ELSE [m1 EXCEPT !.stream[top.children_count].n = @ + 1],
                       frame)
           Recorded(t, frame) ==
               IF t.m.st # "ok" THEN Store(t.m, "traverse") /\ UNCHANGED stack
               ELSE IF is_dir(t.entry)
               THEN Entered(traverse_enter(t.m, t.read_extent_stream), frame)
               ELSE File(reserve_children_count(t.m, -1), frame)
           Traversed(t) == Recorded(t, [top EXCEPT !.state = t.state])
           Read(n) ==
               /\ ~is_dir_table_end(n.ret)
               /\ Traversed(traverse_entry(M, n.state, n.ret))
       IN Read(next_dentry(M, top.state))
    /\ UNCHANGED <<boot_sector, sb, fat, volume, build_stack>>

\* The loop of the innermost traverse ends: it returns, and its caller counts
\* the directory as a child.
TraverseReturn ==
    /\ pc = "traverse"
    /\ LET top == stack[Len(stack)]
       IN /\ is_dir_table_end(next_dentry(M, top.state).ret)
          /\ stack' = SubSeq(stack, 1, Len(stack) - 1)
          /\ IF Len(stack) > 1
             THEN Store([M EXCEPT !.stream[stack[Len(stack) - 1].children_count].n = @ + 1],
                        "traverse")
             ELSE Store(M, "init_group_descs")
    /\ UNCHANGED <<boot_sector, sb, fat, volume, build_stack>>

\* init_ext4_group_descs()
InitGroupDescs(ub) ==
    /\ pc = "init_group_descs"
    /\ Store(init_ext4_group_descs([M EXCEPT !.ub = ub]), "build_root")
    /\ UNCHANGED <<boot_sector, sb, fat, volume, stack, build_stack>>

\* build_ext4_root(), and build_ext4_metadata_tree for the root up to its
\* loop
BuildRoot(ub) ==
    /\ pc = "build_root"
    /\ LET Counted(c, pos) ==
               /\ Store(c.m, "build_tree")
               /\ build_stack' = <<BuildFrame(pos, c.count)>>
           Built(r) ==
               IF r.m.st # "ok" THEN Store(r.m, "build_tree") /\ UNCHANGED build_stack
               ELSE Counted(read_children_count(r.m), r.pos)
       IN Built(build_ext4_root([M EXCEPT !.ub = ub]))
    /\ UNCHANGED <<boot_sector, sb, fat, volume, stack>>

\* One pass of the loop of the innermost build_ext4_metadata_tree: a child is
\* built, and if it is a directory build_ext4_metadata_tree is called on it.
BuildChild(ub) ==
    /\ pc = "build_tree"
    /\ LET top == build_stack[Len(build_stack)]
           Entered(c, b) ==
               /\ Store(c.m, "build_tree")
               /\ build_stack' =
                     [build_stack EXCEPT ![Len(build_stack)] =
                         BuildFrame(b.parent_pos, top.children - 1)]
                       \o <<BuildFrame(b.pos, c.count)>>
           Directory(b) ==
               IF b.m.st # "ok" THEN Store(b.m, "build_tree") /\ UNCHANGED build_stack
               ELSE Entered(read_children_count(b.m), b)
           Counted(m1, pos) ==
               /\ Store(m1, "build_tree")
               /\ build_stack' =
                     IF m1.st # "ok" THEN build_stack
                     ELSE [build_stack EXCEPT ![Len(build_stack)] =
                             BuildFrame(pos, top.children - 1)]
           File(f) == Counted(skip_group(f.m, SizeofCount), f.pos)
           Read(d) ==
               IF is_dir(d.dentry)
               THEN Directory(build_directory(d.m, d.dentry, top.pos))
               ELSE File(build_regular_file(d.m, d.dentry, top.pos))
       IN /\ top.children # 0
          /\ Read(read_child_dentry([M EXCEPT !.ub = ub]))
    /\ UNCHANGED <<boot_sector, sb, fat, volume, stack>>

\* The loop of the innermost build_ext4_metadata_tree ends: the directory is
\* finalized; the root is finalized after lost+found.
BuildReturn(ub) ==
    /\ pc = "build_tree"
    /\ LET top == build_stack[Len(build_stack)]
       IN /\ top.children = 0
          /\ IF Len(build_stack) > 1
             THEN /\ Store(finalize_dir([M EXCEPT !.ub = ub], top.pos), "build_tree")
                  /\ build_stack' = SubSeq(build_stack, 1, Len(build_stack) - 1)
             ELSE /\ Store(M, "lost_found")
                  /\ UNCHANGED build_stack
    /\ UNCHANGED <<boot_sector, sb, fat, volume, stack>>

\* build_lost_found()
BuildLostFound(ub) ==
    /\ pc = "lost_found"
    /\ LET Built(l) ==
               /\ Store(finalize_dir(l.m, l.pos), "finalize")
               /\ build_stack' = IF l.m.st = "ok" THEN <<>> ELSE build_stack
       IN Built(build_lost_found([M EXCEPT !.ub = ub], build_stack[1].pos))
    /\ UNCHANGED <<boot_sector, sb, fat, volume, stack>>

\* finalize_block_groups_on_disk(), and the end of main()
Finalize(ub) ==
    /\ pc = "finalize"
    /\ sb' = sum_group_counts(sb, group_descs, 1)
    /\ Store(finalize_block_groups_on_disk([M EXCEPT !.ub = ub]), "done")
    /\ UNCHANGED <<boot_sector, fat, volume, stack, build_stack>>

Next ==
    \/ InitConvert
    \/ AggregateRoot
    \/ TraverseRoot
    \/ TraverseEntry
    \/ TraverseReturn
    \/ \E ub \in UBOutcomes : InitGroupDescs(ub)
    \/ \E ub \in UBOutcomes : BuildRoot(ub)
    \/ \E ub \in UBOutcomes : BuildChild(ub)
    \/ \E ub \in UBOutcomes : BuildReturn(ub)
    \/ \E ub \in UBOutcomes : BuildLostFound(ub)
    \/ \E ub \in UBOutcomes : Finalize(ub)

Spec == Init /\ [][Next]_vars

(***************************************************************************)
(* SpecName: main() on volumes with one file of a long name                *)
(***************************************************************************)
\* The tokens of the last long-name entry of a name, and how many entries of
\* thirteen euro signs come before it.
NameTails == {1300, 50000, 60200, 60300, 60400, 70000, 60101, 60201}

NameFullEntries == {0, 2, 6}

\* The long-name entries of a name on disk: the last one first, flagged 0x40,
\* down to the one of sequence number 1.
RECURSIVE FullEntries(_)
FullEntries(n) == IF n = 0 THEN <<>> ELSE <<ELfn(n, 130000)>> \o FullEntries(n - 1)

\* the root directory with the file F2 under the name, and a directory D3
\* with F4 in it
TreeName(n, tail) ==
    <<ODir(<<ELfn(64 + n + 1, tail)>> \o FullEntries(n)
             \o <<EObj(2, 66, 32), EObj(3, 68, 16)>>),
      OFile(1),
      ODir(<<ERaw(46, 16), ERaw(46, 16), EObj(4, 70, 32)>>),
      OFile(1)>>

NameVolumes ==
    {[bs |-> [bytes_per_sector |-> 512, sectors_per_cluster |-> 2, sectors_before_fat |-> 2,
              sectors_per_fat |-> 1, fat_count |-> 2, sector_count |-> 2 * (VolumeBlocks + 24),
              root_cluster_no |-> FAT_START_INDEX],
      tree |-> TreeName(n, tail),
      lay |-> [start |-> FAT_START_INDEX, stride |-> 1, deal |-> "seq", gap |-> 0,
               gap_at |-> 3]] :
        n \in NameFullEntries, tail \in NameTails}

InitName == InitOn(NameVolumes)

SpecName == InitName /\ [][Next]_vars

(***************************************************************************)
(* SpecAgg: the loop of aggregate_extents on long chains, pass by pass.    *)
(* The FAT is not held cluster by cluster: a chain is the sequence of its  *)
(* runs of consecutive clusters, and the entry of a cluster is read off    *)
(* the runs.  The extents closed are those handed to                       *)
(* find_blocked_extent_fragments.                                          *)
(***************************************************************************)
Run(start, len) == [start |-> start, len |-> len]

\* *fat_entry(cluster_no) for a cluster of the chain
chain_fat_entry(runs, cluster_no) ==
    LET k == CHOOSE i \in 1..Len(runs) :
                 runs[i].start <= cluster_no /\ cluster_no < runs[i].start + runs[i].len
    IN IF cluster_no + 1 < runs[k].start + runs[k].len THEN cluster_no + 1
       ELSE IF k < Len(runs) THEN runs[k + 1].start
       ELSE FAT_END_OF_CHAIN

\* Chains of one run, and of two runs with the second run before or beyond
\* the first; the empty chain is that of a file of no cluster.
AggChains ==
    {<<>>}
      \cup {<<Run(FAT_START_INDEX, len)>> :
                len \in {1, 2, EXT4_MAX_INIT_EXTENT_LEN, EXT4_MAX_INIT_EXTENT_LEN + 1,
                         2 * EXT4_MAX_INIT_EXTENT_LEN + 1}}
      \cup {<<Run(FAT_START_INDEX + 4, len), Run(start, tail)>> :
                len \in {1, EXT4_MAX_INIT_EXTENT_LEN}, tail \in {1, 2},
                start \in {FAT_START_INDEX, FAT_START_INDEX + 4 + EXT4_MAX_INIT_EXTENT_LEN + 1}}

\* the first cluster of the chain, as a dentry gives it
chain_cluster_no(runs) == IF runs = <<>> THEN 0 ELSE runs[1].start

InitAgg ==
    /\ volume \in {[runs |-> runs] : runs \in AggChains}
    /\ boot_sector = [bytes_per_sector |-> 512, sectors_per_cluster |-> 8,
                      sectors_before_fat |-> 32, sectors_per_fat |-> 552, fat_count |-> 2,
                      sector_count |-> 32 + 2 * 552 + 8 * (2 * EXT4_MAX_INIT_EXTENT_LEN + 4096)]
    /\ sb = init_ext4_sb(boot_sector)
    /\ fat = <<>>
    /\ allocator = [index_in_fat |-> 0, blocked_extents |-> <<>>,
                    blocked_extent_count |-> 0, blocked_extent_current |-> 0]
    /\ allocation_bitmap = {}
    /\ issued = <<>>
    /\ image = <<>>
    /\ write_stream = StreamArchiver(0, 0, 0, 0, 0)
    /\ stream = <<>>
    /\ stack = <<>>
    /\ written = {}
    /\ group_descs = <<>>
    /\ inodes = <<>>
    /\ first_free_inode_no = EXT4_FIRST_NON_RSV_INODE + 1
    /\ read_stream = StreamArchiver(0, 0, 0, 0, 0)
    /\ build_stack = <<>>
    /\ wlog = <<>>
    /\ registered = <<>>
    /\ agg = <<>>
    /\ search = <<>>
    /\ sar = <<>>
    /\ pc = "aggregate"
    /\ exit_status = -1

agg_unchanged ==
    UNCHANGED <<exit_status, boot_sector, sb, fat, allocator, allocation_bitmap, issued,
                volume, image, write_stream, stream, stack, written, group_descs, inodes,
                first_free_inode_no, read_stream, build_stack, wlog, registered, search, sar>>

\* aggregate_extents, lines 117 to 120 for a chain that is not empty
AggregateEnter ==
    /\ pc = "aggregate"
    /\ chain_cluster_no(volume.runs) # 0
    /\ agg' = [current_extent |-> fat_extent(0, 1, chain_cluster_no(volume.runs)),
               next_cluster_no |-> chain_fat_entry(volume.runs, chain_cluster_no(volume.runs)),
               closed |-> <<>>]
    /\ pc' = "aggregate_loop"
    /\ agg_unchanged

\* aggregate_extents for cluster_no 0: the loop is not entered
AggregateNothing ==
    /\ pc = "aggregate"
    /\ chain_cluster_no(volume.runs) = 0
    /\ agg' = [current_extent |-> fat_extent(0, 1, 0), next_cluster_no |-> 0, closed |-> <<>>]
    /\ pc' = "aggregated"
    /\ agg_unchanged

\* one pass of the loop of aggregate_extents, lines 121 to 133
AggregatePass ==
    /\ pc = "aggregate_loop"
    /\ LET current_extent == agg.current_extent
           is_end == agg.next_cluster_no >= FAT_END_OF_CHAIN
           is_consecutive ==
               agg.next_cluster_no = current_extent.physical_start + current_extent.length
           flush == is_end \/ ~is_consecutive \/ has_max_length(current_extent)
       IN /\ agg' = [current_extent |->
                        IF flush
                        THEN fat_extent(current_extent.logical_start + current_extent.length, 1,
                                        agg.next_cluster_no)
                        ELSE [current_extent EXCEPT !.length = @ + 1],
                     next_cluster_no |->
                        IF is_end THEN agg.next_cluster_no
                        ELSE chain_fat_entry(volume.runs, agg.next_cluster_no),
                     closed |-> IF flush THEN Append(agg.closed, current_extent)
                                ELSE agg.closed]
          /\ pc' = IF is_end THEN "aggregated" ELSE "aggregate_loop"
    /\ agg_unchanged

NextAgg == AggregateEnter \/ AggregateNothing \/ AggregatePass

SpecAgg == InitAgg /\ [][NextAgg]_vars

(***************************************************************************)
(* SpecFind: find_first_blocked_extent and find_next_blocked_extent on the *)
(* blocked extents of partitions of up to three block groups.              *)
(***************************************************************************)
\* Partitions of 8 KiB clusters whose data region starts in the first block
\* group, in the overhead of the second, and behind it.
FindBootSectors ==
    {[bytes_per_sector |-> 4096, sectors_per_cluster |-> 2, sectors_before_fat |-> 2,
      sectors_per_fat |-> spf, fat_count |-> 2, sector_count |-> 2 * blocks] :
        spf \in {1, 67, 71},
        blocks \in {MaxSbBlocks - 64, MaxSbBlocks - 63, MaxSbBlocks - 2, MaxSbBlocks}}

\* The lengths of the ranges searched for.
SearchLengths == {1, 2, 59, 64, 65, 130}

\* The state of main() after init_extent_allocator.
InitFind ==
    /\ boot_sector \in FindBootSectors
    /\ sb = init_ext4_sb(boot_sector)
    /\ fat = [c \in 0..(data_cluster_count - 1) |-> FREE_CLUSTER]
    /\ allocation_bitmap = create_allocation_bitmap
    /\ allocator = init_extent_allocator(create_block_group_meta_extents(block_group_count),
                                         block_group_count)
    /\ issued = <<>>
    /\ pc = "search"
    /\ exit_status = -1
    /\ volume = <<>>
    /\ image = <<>>
    /\ write_stream = StreamArchiver(0, 0, 0, 0, 0)
    /\ stream = <<>>
    /\ stack = <<>>
    /\ written = {}
    /\ group_descs = <<>>
    /\ inodes = <<>>
    /\ first_free_inode_no = EXT4_FIRST_NON_RSV_INODE + 1
    /\ read_stream = StreamArchiver(0, 0, 0, 0, 0)
    /\ build_stack = <<>>
    /\ wlog = <<>>
    /\ registered = <<>>
    /\ agg = <<>>
    /\ search = <<>>
    /\ sar = <<>>

search_unchanged ==
    UNCHANGED <<exit_status, boot_sector, sb, fat, allocator, allocation_bitmap, issued,
                volume, image, write_stream, stream, stack, written, group_descs, inodes,
                first_free_inode_no, read_stream, build_stack, wlog, registered, agg, sar>>

\* i = find_first_blocked_extent(physical_address)
FindFirst(physical_address, physical_end) ==
    /\ pc = "search"
    /\ search' = [physical_address |-> physical_address, physical_end |-> physical_end,
                  first |-> find_first_blocked_extent(allocator, physical_address),
                  i |-> find_first_blocked_extent(allocator, physical_address),
                  returned |-> <<>>]
    /\ pc' = "iterate"
    /\ search_unchanged

\* find_next_blocked_extent(i, physical_end), called until it returns NULL;
\* returned holds the indices of the extents it returned.
FindNext ==
    /\ pc = "iterate"
    /\ LET r == find_next_blocked_extent(allocator, search.i, search.physical_end)
       IN /\ search' = [search EXCEPT !.i = r.i,
                                      !.returned = IF r.null THEN @ ELSE Append(@, r.i - 1)]
          /\ pc' = IF r.null THEN "searched" ELSE "iterate"
    /\ search_unchanged

NextFind ==
    \/ \E physical_address \in 0..(data_cluster_count + 1), length \in SearchLengths :
          FindFirst(physical_address, physical_address + length)
    \/ FindNext

SpecFind == InitFind /\ [][NextFind]_vars

(***************************************************************************)
(* SpecArch: the stream archiver on its own.  Its pages are memory: an     *)
(* element is stored at the address (page, offset) the writer was handed,  *)
(* and a read returns what is stored at the address the reader was handed. *)
(***************************************************************************)
NullAddress == <<0, 0>>

\* What the bytes at an address hold for a read of len bytes: the value
\* stored there with that length, or -1 for anything else.
load(cells, address, len) ==
    IF address \in DOMAIN cells /\ cells[address].len = len THEN cells[address].val ELSE -1

store(cells, address, len, val) ==
    [x \in DOMAIN cells \cup {address} |->
        IF x = address THEN [len |-> len, val |-> val] ELSE cells[x]]

\* The archiver state the operations below work on: the StreamArchiver s
\* (header an address), the cells and next pointers of the pages, the
\* allocator, and the pointer returned.
W ==
    [s |-> write_stream, cells |-> sar.cells, next |-> sar.next, a |-> allocator,
     bm |-> allocation_bitmap, st |-> "ok", ptr |-> NullAddress]

\* allocatePage: ptr is the page
allocatePage_mem(w) ==
    LET done(r) ==
            IF r.full THEN [w EXCEPT !.st = "full"]
            ELSE [w EXCEPT !.a = r.a, !.bm = r.bm, !.ptr = <<r.result.physical_start, 0>>]
    IN done(allocate_extent(w.a, w.bm, 1))

\* iterateStreamArchiver, lines 34 to 46
place_element(w, insert, elementLength) ==
    LET spill == w.s.offsetInPage + elementLength > PageSize
        offsetInPage == IF spill THEN SizeofPage ELSE w.s.offsetInPage
        linked(w1) ==
            IF w1.st # "ok" THEN w1
            ELSE [w1 EXCEPT !.next = [x \in DOMAIN w.next \cup {w1.ptr[1]} |->
                                        IF x = w1.ptr[1] THEN 0
                                        ELSE IF x = w.s.page THEN w1.ptr[1] ELSE w.next[x]],
                            !.s.page = w1.ptr[1]]
        placed(w2) ==
            IF w2.st # "ok" THEN w2
            ELSE [w2 EXCEPT !.s.offsetInPage = offsetInPage + elementLength,
                            !.ptr = <<w2.s.page, offsetInPage>>]
    IN placed(IF ~spill THEN w
              ELSE IF insert THEN linked(allocatePage_mem(w))
              ELSE [w EXCEPT !.s.page = w.next[w.s.page]])

\* iterateStreamArchiver moving past the group by the length asked for
iterateStreamArchiver_requested(w, insert, elementLength, elementCount) ==
    LET at_header(w2) == [w2 EXCEPT !.s.header = w2.ptr, !.ptr = NullAddress]
    IN IF ~insert /\ elementCount > 0
            /\ w.s.elementIndex + elementCount > load(w.cells, w.s.header, SizeofHeader)
       THEN at_header(place_element([w EXCEPT !.s.elementIndex = 0], insert, elementLength))
       ELSE place_element([w EXCEPT !.s.elementIndex = @ + elementCount], insert, elementLength)

\* iterateStreamArchiver: ptr is the pointer returned, NullAddress for NULL
iterateStreamArchiver(w, insert, elementLength, elementCount) ==
    LET at_header(w2) == [w2 EXCEPT !.s.header = w2.ptr, !.ptr = NullAddress]
    IN IF ~insert /\ elementCount > 0
            /\ w.s.elementIndex + elementCount > load(w.cells, w.s.header, SizeofHeader)
       THEN at_header(place_element([w EXCEPT !.s.elementIndex = 0], insert, SizeofHeader))
       ELSE place_element([w EXCEPT !.s.elementIndex = @ + elementCount], insert, elementLength)

\* cutStreamArchiver on the pages as memory
cutStreamArchiver_mem(w) ==
    LET first_page(w1) ==
            IF w1.st # "ok" THEN w1
            ELSE [w1 EXCEPT !.next = [x \in DOMAIN w.next \cup {w1.ptr[1]} |->
                                        IF x = w1.ptr[1] THEN 0 ELSE w.next[x]],
                            !.s.page = w1.ptr[1],
                            !.s.offsetInPage = SizeofPage]
        new_header(w2) == IF w2.st # "ok" THEN w2 ELSE [w2 EXCEPT !.s.header = w2.ptr]
        insert_header(w1) ==
            IF w1.st # "ok" THEN w1
            ELSE new_header(iterateStreamArchiver([w1 EXCEPT !.s.elementIndex = 0],
                                                  TRUE, SizeofHeader, 0))
    IN insert_header(IF w.s.header # NullAddress /\ w.s.page # 0
                     THEN [w EXCEPT !.cells = store(w.cells, w.s.header, SizeofHeader,
                                                    w.s.elementIndex)]
                     ELSE first_page(allocatePage_mem(w)))

\* The sizes of the records the converter archives.
ElementLengths == {SizeofCount, SizeofExtent, SizeofDentry}

\* Where the writer or reader stands.
Position(s) == [page |-> s.page, offsetInPage |-> s.offsetInPage, header |-> s.header]

\* The state of main() after init_stream_archiver, on an empty volume.
InitArch ==
    /\ boot_sector \in {bs \in VolumeBootSectors :
                          /\ bs.bytes_per_sector = 512 /\ bs.sectors_per_fat = 1
                          /\ bs.sector_count = bs.sectors_per_cluster * VolumeBlocks}
    /\ sb = init_ext4_sb(boot_sector)
    /\ fat = [c \in 0..(data_cluster_count - 1) |-> FREE_CLUSTER]
    /\ LET w == cutStreamArchiver_mem(
                   [s |-> [page |-> 0, offsetInPage |-> 0, elementIndex |-> 0,
                           header |-> NullAddress],
                    cells |-> [x \in {} |-> 0], next |-> [x \in {} |-> 0],
                    a |-> init_extent_allocator(
                              create_block_group_meta_extents(block_group_count),
                              block_group_count),
                    bm |-> create_allocation_bitmap, st |-> "ok", ptr |-> NullAddress])
       IN /\ allocator = w.a
          /\ allocation_bitmap = w.bm
          /\ write_stream = w.s
          /\ sar = [cells |-> w.cells, next |-> w.next, groups |-> << <<>> >>,
                    starts |-> <<Position(w.s)>>, fork |-> 0, got |-> <<>>,
                    returned |-> {<<w.s.header[1], w.s.header[2], SizeofHeader>>},
                    writes |-> 0]
    /\ read_stream = [page |-> 0, offsetInPage |-> 0, elementIndex |-> 0,
                      header |-> NullAddress]
    /\ issued = <<>>
    /\ pc = "archive"
    /\ exit_status = -1
    /\ volume = <<>>
    /\ image = <<>>
    /\ stream = <<>>
    /\ stack = <<>>
    /\ written = {}
    /\ group_descs = <<>>
    /\ inodes = <<>>
    /\ first_free_inode_no = EXT4_FIRST_NON_RSV_INODE + 1
    /\ build_stack = <<>>
    /\ wlog = <<>>
    /\ registered = <<>>
    /\ agg = <<>>
    /\ search = <<>>

sar_unchanged ==
    UNCHANGED <<boot_sector, sb, fat, issued, volume, image, stream, stack, written,
                group_descs, inodes, first_free_inode_no, build_stack, wlog, registered,
                agg, search>>

\* What a call of the writer leaves: exit(1) when the allocator is full.
StoreWriter(w) ==
    /\ allocator' = w.a
    /\ allocation_bitmap' = w.bm
    /\ write_stream' = IF w.st = "ok" THEN w.s ELSE write_stream
    /\ pc' = IF w.st = "ok" THEN "archive" ELSE "exit"
    /\ exit_status' = IF w.st = "ok" THEN exit_status ELSE 1
    /\ read_stream' = read_stream

\* *iterateStreamArchiver(write_stream, true, elementLength) = a new value
ArchAppend(elementLength) ==
    /\ pc = "archive"
    /\ sar.writes < MaxWrites
    /\ LET val == sar.writes + 1
           stored(w) ==
               /\ StoreWriter(w)
               /\ sar' = IF w.st # "ok" THEN sar
                         ELSE [sar EXCEPT
                                 !.cells = store(w.cells, w.ptr, elementLength, val),
                                 !.next = w.next,
                                 !.groups[Len(sar.groups)] =
                                     Append(@, [len |-> elementLength, val |-> val]),
                                 !.returned = @ \cup {<<w.ptr[1], w.ptr[2], elementLength>>},
                                 !.writes = val]
       IN stored(iterateStreamArchiver(W, TRUE, elementLength, 1))
    /\ sar_unchanged

\* cutStreamArchiver(write_stream)
ArchCut ==
    /\ pc = "archive"
    /\ sar.writes < MaxWrites
    /\ LET stored(w) ==
               /\ StoreWriter(w)
               /\ sar' = IF w.st # "ok" THEN sar
                         ELSE [sar EXCEPT
                                 !.cells = w.cells,
                                 !.next = w.next,
                                 !.groups = Append(@, <<>>),
                                 !.starts = Append(@, Position(w.s)),
                                 !.returned = @ \cup {<<w.s.header[1], w.s.header[2],
                                                        SizeofHeader>>},
                                 !.writes = @ + 1]
       IN stored(cutStreamArchiver_mem(W))
    /\ sar_unchanged

\* StreamArchiver read_stream = *write_stream, at the start of a group
ArchFork ==
    /\ pc = "archive"
    /\ sar.fork = 0
    /\ write_stream.elementIndex = 0
    /\ read_stream' = write_stream
    /\ sar' = [sar EXCEPT !.fork = Len(sar.groups)]
    /\ UNCHANGED <<pc, exit_status, allocator, allocation_bitmap, write_stream>>
    /\ sar_unchanged

\* The results a reader forked at group g is due for the groups cut so far:
\* the records of each group, and after them one end of group (len 0).
RECURSIVE Due(_)
Due(g) ==
    IF g >= Len(sar.groups) THEN <<>>
    ELSE [k \in 1..Len(sar.groups[g]) |->
             [len |-> sar.groups[g][k].len, val |-> sar.groups[g][k].val, group |-> g]]
           \o <<[len |-> 0, val |-> 0, group |-> g]>> \o Due(g + 1)

\* getNext on read_stream, with the size of the record written there, or
\* with any size where the group has no more records.
ArchRead(elementLength) ==
    /\ pc = "archive"
    /\ sar.fork # 0
    /\ Len(sar.got) < Len(Due(sar.fork))
    /\ Due(sar.fork)[Len(sar.got) + 1].len \in {0, elementLength}
    /\ LET read(r) ==
               /\ read_stream' = r.s
               /\ sar' = [sar EXCEPT
                            !.got = Append(@, [val |-> IF r.ptr = NullAddress THEN 0
                                                       ELSE load(r.cells, r.ptr, elementLength),
                                               at |-> Position(r.s), ptr |-> r.ptr]),
                            !.returned = IF r.ptr = NullAddress THEN @
                                         ELSE @ \cup {<<r.ptr[1], r.ptr[2], elementLength>>}]
       IN read(iterateStreamArchiver([W EXCEPT !.s = read_stream], FALSE, elementLength, 1))
    /\ UNCHANGED <<pc, exit_status, allocator, allocation_bitmap, write_stream>>
    /\ sar_unchanged

NextArch ==
    \/ \E elementLength \in ElementLengths : ArchAppend(elementLength)
    \/ ArchCut
    \/ ArchFork
    \/ \E elementLength \in ElementLengths : ArchRead(elementLength)

SpecArch == InitArch /\ [][NextArch]_vars

(***************************************************************************)
(* SpecBig: main() on volumes of 128 KiB clusters                          *)
(***************************************************************************)
\* The one group of such a volume has one inode that is not reserved: the
\* root directory holds one file, of one cluster or of three, or one empty
\* directory.
BigTrees ==
    {<<ODir(<<EObj(2, 65, 32)>>), OFile(1)>>,
     <<ODir(<<EObj(2, 66, 32)>>), OFile(3)>>,
     <<ODir(<<EObj(2, 68, 16)>>), ODir(<<ERaw(46, 16), ERaw(46, 16)>>)>>}

BigVolumes ==
    {[bs |-> [v.bs EXCEPT !.root_cluster_no = ClusterOfPiece(v.tree, v.lay, 1, 1)],
      tree |-> v.tree, lay |-> v.lay] :
        v \in {w \in [bs : {[bytes_per_sector |-> 4096, sectors_per_cluster |-> 32,
                             sectors_before_fat |-> 32, sectors_per_fat |-> 16,
                             fat_count |-> 2, sector_count |-> 32 * VolumeBlocks,
                             root_cluster_no |-> 0]},
                       tree : BigTrees, lay : Layouts] :
                  /\ Convertible(w.bs)
                  /\ LastClusterOf(w.tree, w.lay) < DataClusterCountOf(w.bs)}}

InitBig == InitOn(BigVolumes)

SpecBig == InitBig /\ [][Next]_vars

(***************************************************************************)
(* SpecLabel: main() on volumes with a volume label in the root directory  *)
(***************************************************************************)
\* A deleted entry, the volume label (attribute 0x08, first byte 'A' or '@'),
\* F2 and D3/{., .., a deleted entry, F4}; and the same without a label.
LabelTrees ==
    {<<ODir(label \o <<EObj(2, 70, 32), EObj(3, 68, 16)>>),
       OFile(1),
       ODir(<<ERaw(46, 16), ERaw(46, 16), ERaw(229, 32), EObj(4, 71, 32)>>),
       OFile(1)>> :
        label \in {<<ERaw(229, 32)>>,
                   <<ERaw(229, 32), ERaw(65, 8)>>,
                   <<ERaw(229, 32), ERaw(64, 8)>>}}

LabelVolumes ==
    {[bs |-> [v.bs EXCEPT !.root_cluster_no = ClusterOfPiece(v.tree, v.lay, 1, 1)],
      tree |-> v.tree, lay |-> v.lay] :
        v \in {w \in [bs : VolumeBootSectors, tree : LabelTrees, lay : Layouts] :
                  /\ Convertible(w.bs)
                  /\ w.bs.sector_count = w.bs.sectors_per_cluster * VolumeBlocks
                  /\ LastClusterOf(w.tree, w.lay) < DataClusterCountOf(w.bs)}}

InitLabel == InitOn(LabelVolumes)

SpecLabel == InitLabel /\ [][Next]_vars

(***************************************************************************)
(* SpecTree: main() on volumes with one file of scattered clusters         *)
(***************************************************************************)
\* the root directory with the file F2 of n clusters, and a directory D3
\* with F4 in it
TreeScattered(n) ==
    <<ODir(<<EObj(2, 66, 32), EObj(3, 68, 16)>>),
      OFile(n),
      ODir(<<ERaw(46, 16), ERaw(46, 16), EObj(4, 70, 32)>>),
      OFile(1)>>

\* Every other cluster is used, so that each cluster of F2 is an extent.
ScatteredVolumes ==
    {[bs |-> [bytes_per_sector |-> 512, sectors_per_cluster |-> 2, sectors_before_fat |-> 2,
              sectors_per_fat |-> 1, fat_count |-> 2, sector_count |-> 2 * (VolumeBlocks + 24),
              root_cluster_no |-> start],
      tree |-> TreeScattered(n),
      lay |-> [start |-> start, stride |-> 2, deal |-> "seq", gap |-> gap, gap_at |-> 3]] :
        n \in 1..MaxExtents, start \in FAT_START_INDEX..(FAT_START_INDEX + MaxStart),
        gap \in {0, 3}}

InitTree == InitOn(ScatteredVolumes)

SpecTree == InitTree /\ [][Next]_vars

(***************************************************************************)
(* Claims about the allocator                                              *)
(***************************************************************************)
ClustersOf(e) == e.physical_start..(e.physical_start + e.length - 1)

IssuedClusters == UNION {ClustersOf(issued[k]) : k \in 1..Len(issued)}

FatUsedAtStart ==
    {c \in FAT_START_INDEX..(data_cluster_count - 1) : ~is_free_cluster(fat[c])}

ConsumedBlockedClusters ==
    UNION {ClustersOf(allocator.blocked_extents[k]) : k \in 1..allocator.blocked_extent_current}

AllBlockedClusters ==
    UNION {ClustersOf(allocator.blocked_extents[k]) : k \in 1..Len(allocator.blocked_extents)}

\* The blocks of the overhead region of block group i.
OverheadBlocks(i) == block_group_start(i)..(block_group_start(i) + block_group_overhead(i) - 1)

AllOverheadBlocks == UNION {OverheadBlocks(i) : i \in 0..(block_group_count - 1)}

\* C9 as stated: while the process runs, the clusters marked used in the bitmap are the clusters non-free
\* in the FAT at start with clusters 0 and 1, the clusters allocate_extent has
\* returned, and the clusters of the blocked extents the cursor has consumed.
C9_BitmapWithBlocked ==
    exit_status = -1 =>
        allocation_bitmap =
            FatUsedAtStart \cup (0..(FAT_START_INDEX - 1)) \cup IssuedClusters
                \cup ConsumedBlockedClusters

\* C9 amended: while the process runs, the clusters marked used in the bitmap are the clusters non-free
\* in the FAT at start with clusters 0 and 1, and the clusters allocate_extent
\* has returned; a consumed blocked extent leaves the bitmap as it was.
C9_BitmapIsFatUsedAndIssued ==
    exit_status = -1 =>
        allocation_bitmap = FatUsedAtStart \cup (0..(FAT_START_INDEX - 1)) \cup IssuedClusters

\* An extent was returned after the cursor consumed a blocked extent holding a
\* cluster that is free in the FAT.
C9_Witness ==
    /\ Len(issued) >= 1
    /\ \E c \in ConsumedBlockedClusters :
          c < issued[Len(issued)].physical_start /\ c \notin FatUsedAtStart

\* C10: every extent allocate_extent has returned lies wholly inside
\* [2, data_cluster_count), shares no cluster with any blocked extent (the
\* terminal sentinel included) and no block with any group's overhead region.
C10_IssuedAvoidBlocked ==
    \A k \in 1..Len(issued) :
        /\ issued[k].length >= 1
        /\ \A c \in ClustersOf(issued[k]) :
              /\ FAT_START_INDEX <= c
              /\ c < data_cluster_count
              /\ c \notin AllBlockedClusters
              /\ fat_cl_to_e4blk(c) \notin AllOverheadBlocks

\* An extent of two clusters was returned beyond a blocked extent that is not empty.
C10_Witness ==
    \E k \in 1..Len(issued) :
        /\ issued[k].length >= 2
        /\ \E j \in 1..allocator.blocked_extent_current :
              /\ allocator.blocked_extents[j].length >= 1
              /\ allocator.blocked_extents[j].physical_start < issued[k].physical_start

(***************************************************************************)
(* Claims about the conversion                                             *)
(***************************************************************************)
\* The data region of the input.
Image0 == ImageOf(volume.tree, volume.lay, data_cluster_count)

FileObjects == {o \in 1..Len(volume.tree) : volume.tree[o].kind = "file"}

\* The dentry elements of the archiver that record object o.
DentryRecords(o) == {k \in 1..Len(stream) : stream[k].t = "dentry" /\ stream[k].d.id = o}

ExtentItems == {k \in 1..Len(stream) : stream[k].t = "extent"}

\* The record an element belongs to: a record ends with its children count
\* (the first record, the extents of the root directory, with that of the
\* root).
Owner(k) == Cardinality({j \in 1..k : stream[j].t = "count"})

\* The extents recorded for the entry whose dentry is element k.
ExtentsOfRecord(k) == {i \in ExtentItems : i > k /\ Owner(i) = Owner(k)}

\* The extents of a record that hold logical cluster j of the file.
CoveringExtents(k, j) ==
    {i \in ExtentsOfRecord(k) :
        stream[i].e.logical_start <= j /\ j < stream[i].e.logical_start + stream[i].e.length}

\* C1: once the traversal has returned, every regular file of the tree has a
\* record in the archiver whose extents, walked in order of logical_start,
\* cover as many clusters as the FAT chain of the file has, and the cluster
\* read at each position holds what the cluster of the chain at that position
\* held in the input.
C1_ExtentsYieldChain ==
    pc = "init_group_descs" =>
        \A o \in FileObjects :
            \E k \in DentryRecords(o) :
                LET chain == Chain(volume.tree, volume.lay, o)
                IN /\ \A i \in ExtentsOfRecord(k) :
                         stream[i].e.logical_start + stream[i].e.length <= Len(chain)
                   /\ \A j \in 1..Len(chain) :
                         /\ Cardinality(CoveringExtents(k, j - 1)) = 1
                         /\ \A i \in CoveringExtents(k, j - 1) :
                               image[stream[i].e.physical_start
                                       + (j - 1 - stream[i].e.logical_start)]
                                 = Image0[chain[j]]

RecordedClusters == UNION {ClustersOf(stream[k].e) : k \in ExtentItems}

MetaKinds == {"sb", "gdt", "block_bitmap", "inode_bitmap", "inode_table", "inode"}

StreamPages == {stream[k].pg : k \in 1..Len(stream)}

\* C3: every block written as metadata of a group (superblock and descriptor
\* copies, the bitmaps, the inode table and the inodes in it) lies before the
\* first data cluster or in the blocked extent of that group, and is neither
\* a cluster of a recorded extent nor a page of the archiver.
C3_MetadataInsideBlockedExtent ==
    \A k \in 1..Len(wlog) :
        wlog[k].kind \in MetaKinds =>
            LET c == e4blk_to_fat_cl(wlog[k].block)
            IN /\ c = 0 \/ c \in ClustersOf(allocator.blocked_extents[wlog[k].bg + 1])
               /\ c \notin RecordedClusters
               /\ c \notin StreamPages

\* The conversion completed, metadata of a group was written into the data
\* region, and an extent of the input had been resettled.
C3_Witness ==
    /\ pc = "done"
    /\ \E k \in 1..Len(wlog) :
          wlog[k].kind \in MetaKinds /\ wlog[k].bg > 0 /\ e4blk_to_fat_cl(wlog[k].block) # 0
    /\ \E k \in ExtentItems : ClustersOf(stream[k].e) \subseteq IssuedClusters

\* C4: the clusters written before the group descriptors are initialized are
\* clusters the allocator has issued and the FAT marked free at start; every
\* cluster the FAT marked used holds what it held in the input, and the boot
\* sector and the FAT are those of the input.
C4_Phase1WritesIssuedFreeClusters ==
    wlog = <<>> =>
        /\ written \subseteq IssuedClusters
        /\ written \cap FatUsedAtStart = {}
        /\ \A c \in FatUsedAtStart : image[c] = Image0[c]
        /\ fat = FatOf(volume.tree, volume.lay, data_cluster_count)
        /\ boot_sector = volume.bs

\* The traversal has returned after it wrote archiver pages and copied the
\* clusters of an extent to issued clusters.
C4_Witness ==
    /\ pc = "init_group_descs"
    /\ StreamPages \subseteq written
    /\ \E k \in ExtentItems :
          /\ ClustersOf(stream[k].e) \subseteq IssuedClusters
          /\ ClustersOf(stream[k].e) \subseteq written
          /\ \A c \in ClustersOf(stream[k].e) : image[c].kind \in {"data", "dir"}

\* C6: the process exits with status 1 when a fatal error is raised before
\* the first block of the ext4 structures is written, with status 2 when it is
\* raised after that, and with status 0 when the conversion completes.
C6_ExitStatusTellsCommit ==
    /\ pc = "exit" /\ wlog = <<>> => exit_status = 1
    /\ pc = "exit" /\ wlog # <<>> => exit_status = 2
    /\ pc = "done" => exit_status = 0

\* An entry of a directory that is neither deleted, nor a dot entry, nor a
\* long-name entry.
IsLive(e) == e.first # 229 /\ e.first # 46 /\ e.attrs # 15

LiveEntries(o) == SelectSeq(volume.tree[o].entries, IsLive)

\* The live entries below directory o, depth first in directory order, from
\* entry number n of o on: each with its dentry and the children count of its
\* record.
RECURSIVE LivePreorder(_, _)
LivePreorder(o, n) ==
    IF n > Len(LiveEntries(o)) THEN <<>>
    ELSE LET e == LiveEntries(o)[n]
             d == DentryOf(volume.tree, volume.lay, e)
         IN IF is_dir(d)
            THEN <<[d |-> d, n |-> Len(LiveEntries(e.o))]>> \o LivePreorder(e.o, 1)
                    \o LivePreorder(o, n + 1)
            ELSE <<[d |-> d, n |-> -1]>> \o LivePreorder(o, n + 1)

IsDentryItem(item) == item.t = "dentry"

IsCountItem(item) == item.t = "count"

\* C7: once the traversal has returned, the dentries of the record stream are
\* the live entries of the tree, each once, depth first and in directory
\* order, directories being the entries with attribute bit 4; and the children
\* counts recorded are, for the root and for each entry in that order, the
\* number of live entries of the directory, and the sentinel for a file.
C7_StreamEncodesTree ==
    pc = "init_group_descs" =>
        LET live == LivePreorder(1, 1)
            dentries == SelectSeq(stream, IsDentryItem)
            counts == SelectSeq(stream, IsCountItem)
        IN /\ [k \in 1..Len(dentries) |-> dentries[k].d] = [k \in 1..Len(live) |-> live[k].d]
           /\ [k \in 1..Len(counts) |-> counts[k].n]
                = <<Len(LiveEntries(1))>> \o [k \in 1..Len(live) |-> live[k].n]

\* The blocks of the calls of add_extent_to_block_bitmap.
RegisteredBlocks == UNION {registered[k].begin..(registered[k].end - 1) : k \in 1..Len(registered)}

\* The block range of group i, as bits of its bitmap.
GroupRange(i) == 0..(block_group_block_count(i) - 1)

\* C8: when the conversion has completed, the bits set in the block bitmap of
\* each group, within the block range of the group, are those of the overhead
\* blocks of the group and of the blocks of the extents registered.
C8_BlockBitmapIsOverheadAndRegistered ==
    pc = "done" =>
        \A i \in 0..(block_group_count - 1) :
            group_descs[i + 1].block_bitmap \cap GroupRange(i)
              = ((0..(block_group_overhead(i) - 1))
                   \cup {b - block_group_start(i) : b \in RegisteredBlocks})
                  \cap GroupRange(i)

\* The conversion completed on a volume of several groups with extents of
\* files, of directories and of an extent tree block registered, in a group
\* other than the first among them.
C8_Witness ==
    /\ pc = "done"
    /\ block_group_count > 1
    /\ Len(registered) > Cardinality(ExtentItems)
    /\ \E k \in 1..Len(registered) : registered[k].begin >= block_group_start(1)
    /\ \E n \in DOMAIN inodes : inodes[n].ext_header.eh_depth = 1

\* The clusters after the cursor of the allocator that are free in the
\* bitmap and outside every blocked extent.
UsableAfterCursor ==
    {c \in (allocator.index_in_fat + 1)..(data_cluster_count - 1) :
        c \notin allocation_bitmap /\ c \notin AllBlockedClusters}

\* C11: a call of allocate_extent made when no cluster after the cursor is
\* free in the bitmap and outside the blocked extents returns no extent but
\* ends in the fatal error, with exit status 1 and nothing issued; and no
\* call returns a cluster at or beyond data_cluster_count.
C11_ExhaustionIsFatal ==
    /\ pc = "run" =>
          \A max_length \in 1..MaxRequest :
              LET r == allocate_extent(allocator, allocation_bitmap, max_length)
              IN /\ UsableAfterCursor = {} => r.full
                 /\ ~r.full => ClustersOf(r.result) \subseteq
                                   FAT_START_INDEX..(data_cluster_count - 1)
    /\ pc = "exit" => exit_status = 1 /\ UsableAfterCursor = {}
    /\ IssuedClusters \subseteq FAT_START_INDEX..(data_cluster_count - 1)

\* The allocator has issued extents and a later call, made with nothing
\* usable left, ended the process.
C11_Witness ==
    /\ pc = "exit"
    /\ exit_status = 1
    /\ Len(issued) >= 2
    /\ UsableAfterCursor = {}

(***************************************************************************)
(* Claims about names                                                      *)
(***************************************************************************)
\* The name the long-name entries of the root directory spell: the entries
\* from the last of them in directory order, of sequence number 1, back to
\* the first.
RECURSIVE LongNameFrom(_)
LongNameFrom(k) ==
    IF k = 0 THEN <<>>
    ELSE (IF volume.tree[1].entries[k].t = "lfn" THEN spelled(volume.tree[1].entries[k].o)
          ELSE <<>>) \o LongNameFrom(k - 1)

LongName == LongNameFrom(Len(volume.tree[1].entries))

\* The bytes of the UTF-8 encoding of a sequence of UCS-2 units.
RECURSIVE Utf8Length(_)
Utf8Length(units) ==
    IF units = <<>> THEN 0
    ELSE (IF Head(units) <= 127 THEN 1 ELSE IF Head(units) <= 2047 THEN 2 ELSE 3)
           + Utf8Length(Tail(units))

\* The ext4 dentries written to directory blocks for the inode.
DentriesFor(inode_no) ==
    {image[c].ents[k] :
        <<c, k>> \in {<<c, k>> \in (DOMAIN image) \X (1..64) :
                        /\ image[c].kind = "e4dir"
                        /\ k <= Len(image[c].ents)
                        /\ image[c].ents[k].inode = inode_no}}

\* the inode of the first file built
FirstInode == EXT4_FIRST_NON_RSV_INODE + 1

\* C12: the name of a file is stored in its ext4 dentry as it is, with
\* name_len the length of its UTF-8 encoding, when that length is at most 255
\* bytes; a name of a longer encoding is never stored, truncated or not, and
\* the process ends with exit status 1.
C12_NameStoredOrFatal ==
    /\ Utf8Length(LongName) <= 255 =>
          /\ \A d \in DentriesFor(FirstInode) :
                d.name = LongName /\ d.name_len = Utf8Length(LongName)
          /\ pc = "done" => DentriesFor(FirstInode) # {}
    /\ Utf8Length(LongName) > 255 =>
          /\ DentriesFor(FirstInode) = {}
          /\ pc # "done"
          /\ pc = "exit" => exit_status = 1

(***************************************************************************)
(* Claims about the superblock                                             *)
(***************************************************************************)
\* partition_bytes / bytes_per_block
PartitionBlocks == boot_sector.sector_count \div boot_sector.sectors_per_cluster

\* The blocks the last block group of the whole partition would hold.
LastGroupBlocks == PartitionBlocks % sb.s_blocks_per_group

\* C13: after init_ext4_sb, when the last block group of the partition would
\* hold fewer blocks than its overhead and 50 more, blocks_count is reduced
\* to leave it out, there is one block group less and no blocked extent for
\* the tail; otherwise blocks_count is the block count of the partition.
C13_SmallLastGroupIsDropped ==
    IF LastGroupBlocks # 0 /\ LastGroupBlocks < block_group_overhead_sb(TRUE) + 50
    THEN /\ sb.s_blocks_count = PartitionBlocks - LastGroupBlocks
         /\ block_group_count = ceildiv(PartitionBlocks, sb.s_blocks_per_group) - 1
         /\ pc = "run" =>
               allocator.blocked_extent_count
                   = ceildiv(PartitionBlocks, sb.s_blocks_per_group) - 1
    ELSE sb.s_blocks_count = PartitionBlocks

(***************************************************************************)
(* Claims about the extent tree                                            *)
(***************************************************************************)
\* The extents recorded for the entry whose dentry is element k, in the
\* order of the archiver.
RecordedExtents(k) ==
    LET S == ExtentsOfRecord(k)
    IN [j \in 1..Cardinality(S) |->
           stream[CHOOSE i \in S : Cardinality({x \in S : x < i}) = j - 1].e]

\* The extents of the leaf an entry of an index node names.  An extent found
\* where an index entry belongs names no block of the partition.
LeafExtents(idx) == IF idx.ee_len # -1 THEN <<>> ELSE node_at(M, idx.ee_start).entries

\* The extents met when the tree of an inode is walked from left to right.
RECURSIVE LeavesFrom(_, _)
LeavesFrom(header, i) ==
    IF i > header.eh_entries THEN <<>>
    ELSE LeafExtents(header.entries[i]) \o LeavesFrom(header, i + 1)

TreeExtents(inode_no) ==
    LET header == inodes[inode_no].ext_header
    IN IF header.eh_depth = 0 THEN header.entries ELSE LeavesFrom(header, 1)

\* C14: when the conversion is done, the extent tree of the inode of the
\* file F2, walked from left to right, yields the extents that were recorded
\* for F2 and registered for the inode, all of them and in that order.
C14_TreeYieldsRegisteredExtents ==
    pc = "done" =>
        \A k \in DentryRecords(2) :
            TreeExtents(FirstInode)
                = [j \in 1..Len(RecordedExtents(k)) |-> to_ext4_extent(RecordedExtents(k)[j])]

(***************************************************************************)
(* Claims about the inodes                                                 *)
(***************************************************************************)
\* The directory inodes that a dentry of the directory names, the dot
\* entries left aside.
ChildDirectories(dir_inode_no) ==
    {i \in DOMAIN inodes :
        /\ inodes[i].is_dir
        /\ \E c \in DOMAIN image :
              /\ image[c].kind = "e4dir"
              /\ image[c].tok = dir_inode_no
              /\ \E k \in 1..Len(image[c].ents) :
                    /\ image[c].ents[k].inode = i
                    /\ image[c].ents[k].name \notin {<<46>>, <<46, 46>>}}

\* C15: when the conversion is done, the links_count of every directory inode
\* is 2 more than the number of its child directories, lost+found being a
\* child directory of the root.
C15_LinksCountOfDirectories ==
    pc = "done" =>
        \A d \in DOMAIN inodes :
            inodes[d].is_dir => inodes[d].i_links_count = 2 + Cardinality(ChildDirectories(d))

(***************************************************************************)
(* Claims about the order of the writes                                    *)
(***************************************************************************)
GroupInitKinds == {"block_bitmap", "inode_bitmap", "inode_table"}

BuildKinds == {"inode", "dir", "node"}

SbCopyKinds == {"sb", "gdt"}

\* The block a descriptor names for the bitmaps and the inode table.
GroupInitBlock(desc, kind) ==
    IF kind = "block_bitmap" THEN desc.bg_block_bitmap
    ELSE IF kind = "inode_bitmap" THEN desc.bg_inode_bitmap
    ELSE desc.bg_inode_table

\* Every group has had its bitmaps and its inode table written before write
\* k, as far as they lie on the partition.
GroupsInitialisedBefore(k) ==
    /\ Len(group_descs) = block_group_count
    /\ \A g \in 0..(block_group_count - 1) :
          \A kind \in GroupInitKinds :
              GroupInitBlock(group_descs[g + 1], kind) < sb.s_blocks_count
                  => \E i \in 1..(k - 1) :
                        /\ wlog[i].kind = kind
                        /\ wlog[i].bg = g
                        /\ wlog[i].block = GroupInitBlock(group_descs[g + 1], kind)

\* C16: of the writes of the commit phase, those that initialise the bitmaps
\* and the inode table of the groups come first, for all groups; the inodes,
\* directory blocks and tree blocks follow; the superblock copies with the
\* descriptors come after all of these; and of the superblock copies that of
\* group 0 is written last, after the backup copies.
C16_OrderOfCommitWrites ==
    /\ \A k \in 1..Len(wlog) :
          /\ wlog[k].kind \in BuildKinds => GroupsInitialisedBefore(k)
          /\ wlog[k].kind = "inode_table" =>
                \A i \in 1..(k - 1) : wlog[i].kind \in GroupInitKinds
          /\ wlog[k].kind \in SbCopyKinds =>
                \A j \in (k + 1)..Len(wlog) : wlog[j].kind \in SbCopyKinds
    /\ \A i, j \in 1..Len(wlog) :
          wlog[i].kind = "sb" /\ wlog[i].bg = 0 /\ i < j
              => ~(wlog[j].kind = "sb" /\ wlog[j].bg # 0)

(***************************************************************************)
(* Claims about the extent returned                                        *)
(***************************************************************************)
\* The longest run of usable clusters from start on, max_length at most.
RunFrom(start, max_length) ==
    CHOOSE L \in 0..max_length :
        /\ start..(start + L - 1) \subseteq UsableAfterCursor
        /\ L < max_length => start + L \notin UsableAfterCursor

\* C17: the extent allocate_extent(max_length) returns starts at the lowest
\* cluster after the cursor that is free in the bitmap and in no blocked
\* extent, is as long as the run of such clusters from there on allows, up to
\* max_length, and has all its clusters marked used in the bitmap on return.
C17_LowestUsableRun ==
    pc = "run" =>
        \A max_length \in 1..MaxRequest :
            LET r == allocate_extent(allocator, allocation_bitmap, max_length)
            IN ~r.full =>
                  /\ r.result.physical_start \in UsableAfterCursor
                  /\ \A c \in UsableAfterCursor : r.result.physical_start <= c
                  /\ r.result.length = RunFrom(r.result.physical_start, max_length)
                  /\ ClustersOf(r.result) \subseteq r.bm

(***************************************************************************)
(* Claims about the sequence of extents returned                           *)
(***************************************************************************)
\* C18: of the extents allocate_extent has returned in a run, no two share a
\* cluster, and none holds a cluster that was not free in the FAT at start.
C18_IssuedOnceAndFree ==
    /\ \A i, j \in 1..Len(issued) :
          i < j => ClustersOf(issued[i]) \cap ClustersOf(issued[j]) = {}
    /\ \A k \in 1..Len(issued) : ClustersOf(issued[k]) \cap FatUsedAtStart = {}

\* Three extents were returned, with a cluster used in the FAT between two of
\* them.
C18_Witness ==
    /\ Len(issued) >= 3
    /\ \E k \in 1..(Len(issued) - 1) :
          \E c \in FatUsedAtStart :
              issued[k].physical_start < c /\ c < issued[k + 1].physical_start

(***************************************************************************)
(* Claims about the extents closed                                         *)
(***************************************************************************)
RECURSIVE ChainLength(_)
ChainLength(runs) == IF runs = <<>> THEN 0 ELSE runs[1].len + ChainLength(Tail(runs))

\* The cluster at logical position j of the chain, and of a sequence of
\* extents laid end to end; 0 when there is none.
RECURSIVE ChainCluster(_, _)
ChainCluster(runs, j) ==
    IF runs = <<>> THEN 0
    ELSE IF j < runs[1].len THEN runs[1].start + j
    ELSE ChainCluster(Tail(runs), j - runs[1].len)

RECURSIVE ExtentsCluster(_, _)
ExtentsCluster(extents, j) ==
    IF extents = <<>> THEN 0
    ELSE IF j < extents[1].length THEN extents[1].physical_start + j
    ELSE ExtentsCluster(Tail(extents), j - extents[1].length)

RECURSIVE ExtentsLength(_)
ExtentsLength(extents) ==
    IF extents = <<>> THEN 0 ELSE extents[1].length + ExtentsLength(Tail(extents))

\* C19: the extents aggregate_extents closes have between 1 and 32768
\* clusters each; of two closed one after the other, the later starts right
\* after the earlier only when the earlier has 32768 clusters; and when the
\* call is over they are, end to end, the clusters of the chain in order,
\* none for a first cluster of 0.
C19_ClosedExtentsAreCappedRuns ==
    pc \in {"aggregate_loop", "aggregated"} =>
        /\ \A k \in 1..Len(agg.closed) :
              /\ 1 <= agg.closed[k].length
              /\ agg.closed[k].length <= EXT4_MAX_INIT_EXTENT_LEN
        /\ \A k \in 1..(Len(agg.closed) - 1) :
              agg.closed[k + 1].physical_start
                    = agg.closed[k].physical_start + agg.closed[k].length
                  => agg.closed[k].length = EXT4_MAX_INIT_EXTENT_LEN
        /\ pc = "aggregated" =>
              /\ ExtentsLength(agg.closed) = ChainLength(volume.runs)
              /\ \A j \in 0..(ChainLength(volume.runs) - 1) :
                    ExtentsCluster(agg.closed, j) = ChainCluster(volume.runs, j)
              /\ chain_cluster_no(volume.runs) = 0 => agg.closed = <<>>

\* A chain with a run of more than 32768 clusters was aggregated: an extent
\* of 32768 clusters was closed and the next one starts right after it.
C19_Witness ==
    /\ pc = "aggregated"
    /\ \E k \in 1..(Len(agg.closed) - 1) :
          /\ agg.closed[k].length = EXT4_MAX_INIT_EXTENT_LEN
          /\ agg.closed[k + 1].physical_start
                = agg.closed[k].physical_start + agg.closed[k].length

(***************************************************************************)
(* Claims about the extents emitted                                        *)
(***************************************************************************)
\* The clusters of the FAT chain that starts at a cluster, 0 for no chain.
RECURSIVE FatChainLength(_)
FatChainLength(cluster_no) ==
    IF cluster_no = 0 \/ cluster_no >= FAT_END_OF_CHAIN THEN 0
    ELSE 1 + FatChainLength(fat[cluster_no])

\* The cluster at logical position j of the chain that starts at a cluster.
RECURSIVE FatChainCluster(_, _)
FatChainCluster(cluster_no, j) ==
    IF j = 0 THEN cluster_no ELSE FatChainCluster(fat[cluster_no], j - 1)

\* The first cluster of the chain a record is of: element 0 stands for the
\* record of the root directory, which has no dentry.
RecordCluster(k) == IF k = 0 THEN boot_sector.root_cluster_no ELSE stream[k].d.cluster

\* The extents tile the logical clusters 0 to n - 1 in their order.
Tiles(extents, n) ==
    /\ extents # <<>> => extents[1].logical_start = 0
    /\ \A j \in 1..Len(extents) : extents[j].length >= 1
    /\ \A j \in 1..(Len(extents) - 1) :
          extents[j + 1].logical_start = extents[j].logical_start + extents[j].length
    /\ ExtentsLength(extents) = n

\* C20: once the traversal has returned, the extents recorded for the root
\* directory and for every entry are, in the order they were emitted, a
\* tiling of the logical clusters of its chain: the first starts at 0, each
\* starts where the one before ends, none is empty, and together they have
\* the length of the chain.
C20_EmittedExtentsTileTheChain ==
    pc = "init_group_descs" =>
        \A k \in {0} \cup {i \in 1..Len(stream) : stream[i].t = "dentry"} :
            Tiles(RecordedExtents(k), FatChainLength(RecordCluster(k)))

\* A record holds an extent left in place and, after it, two extents that
\* resettle two neighbouring blocked clusters of the chain by way of two
\* allocations.
C20_Witness ==
    /\ pc = "init_group_descs"
    /\ \E k \in {i \in 1..Len(stream) : stream[i].t = "dentry"} :
          LET extents == RecordedExtents(k)
          IN \E j \in 2..(Len(extents) - 1) :
                /\ extents[j - 1].physical_start \notin IssuedClusters
                /\ extents[j].physical_start \in IssuedClusters
                /\ extents[j + 1].physical_start \in IssuedClusters
                /\ extents[j + 1].physical_start # extents[j].physical_start + extents[j].length
                /\ FatChainCluster(RecordCluster(k), extents[j + 1].logical_start)
                      = FatChainCluster(RecordCluster(k), extents[j + 1].logical_start - 1) + 1
                /\ {FatChainCluster(RecordCluster(k), extents[j + 1].logical_start),
                    FatChainCluster(RecordCluster(k), extents[j + 1].logical_start - 1)}
                      \subseteq AllBlockedClusters

(***************************************************************************)
(* C21                                                                     *)
(***************************************************************************)
\* blocked extent j of the allocator, j counted from 0 as in the code
BlockedExtent(j) == allocator.blocked_extents[j + 1]

\* the indices of the blocked extents that end at or after the address
EndingFrom(physical_address) ==
    {j \in 0..(allocator.blocked_extent_count - 1) :
        BlockedExtent(j).physical_start + BlockedExtent(j).length >= physical_address}

\* the indices of the blocked extents with a cluster in [a, e)
Intersecting(a, e) ==
    {j \in 0..(allocator.blocked_extent_count - 1) :
        \E c \in ClustersOf(BlockedExtent(j)) : a <= c /\ c < e}

\* C21: find_first_blocked_extent(a) is the smallest index of a blocked
\* extent with physical_start + length >= a, or the extent count if there is
\* none; the calls of find_next_blocked_extent from that index with bound e
\* return, up to the first NULL, the extents of consecutive ascending indices
\* starting there, and among them every blocked extent that intersects [a, e).
C21_SearchFindsIntersecting ==
    pc \in {"iterate", "searched"} =>
        /\ \A j \in 1..(allocator.blocked_extent_count - 1) :
              BlockedExtent(j - 1).physical_start <= BlockedExtent(j).physical_start
        /\ search.first \in EndingFrom(search.physical_address)
                                \cup {allocator.blocked_extent_count}
        /\ \A j \in EndingFrom(search.physical_address) : search.first <= j
        /\ \A k \in 1..Len(search.returned) : search.returned[k] = search.first + k - 1
        /\ pc = "searched" =>
              \A j \in Intersecting(search.physical_address, search.physical_end) :
                  \E k \in 1..Len(search.returned) : search.returned[k] = j

\* A search that began behind the first blocked extent and returned two
\* extents that intersect the range.
C21_Witness ==
    /\ pc = "searched"
    /\ search.first > 0
    /\ Len(search.returned) >= 2
    /\ \A k \in 1..2 : search.returned[k]
                            \in Intersecting(search.physical_address, search.physical_end)

(***************************************************************************)
(* C22                                                                     *)
(***************************************************************************)
\* C22: a reader copied from the writer at the start of a group, reading
\* with the sizes the records were written with, gets for every group cut
\* since then the values written, in the order written, then NULL once, and
\* after that NULL it stands where the writer stood at the start of the next
\* group; every pointer handed to writer or reader lies, with the length
\* asked for, inside one page behind the page's next pointer.
C22_ReaderMirrorsWriter ==
    pc = "archive" =>
        /\ sar.fork # 0 =>
              \A k \in 1..Len(sar.got) :
                  /\ sar.got[k].val = Due(sar.fork)[k].val
                  /\ Due(sar.fork)[k].len = 0 <=> sar.got[k].ptr = NullAddress
                  /\ Due(sar.fork)[k].len = 0 =>
                        sar.got[k].at = sar.starts[Due(sar.fork)[k].group + 1]
        /\ \A span \in sar.returned :
              /\ SizeofPage <= span[2]
              /\ span[2] + span[3] <= PageSize

\* A reader has read two groups to their ends, and records on two pages.
C22_Witness ==
    /\ pc = "archive"
    /\ sar.fork # 0
    /\ Cardinality({k \in 1..Len(sar.got) : sar.got[k].ptr = NullAddress}) >= 2
    /\ \E j, k \in 1..Len(sar.got) :
          /\ sar.got[j].ptr # NullAddress
          /\ sar.got[k].ptr # NullAddress
          /\ sar.got[j].ptr[1] # sar.got[k].ptr[1]

(***************************************************************************)
(* C23                                                                     *)
(***************************************************************************)
\* The index behind the items of type t from index k on.
RECURSIVE SkipItems(_, _)
SkipItems(k, t) ==
    IF k <= Len(stream) /\ stream[k].t = t THEN SkipItems(k + 1, t) ELSE k

IsCut(k) == k <= Len(stream) /\ stream[k].t = "hdr"

\* The index behind a group of items of type t at k and the cut that ends
\* it; 0 where the stream does not hold that, or k is 0.
GroupOf(k, t) ==
    LET cut_at(e) == IF IsCut(e) THEN e + 1 ELSE 0
    IN IF k = 0 THEN 0 ELSE cut_at(SkipItems(k, t))

\* The index behind one item of type t at k and the cut after it, or 0.
OneOf(k, t) ==
    IF k = 0 \/ k > Len(stream) THEN 0
    ELSE IF stream[k].t = t /\ IsCut(k + 1) THEN k + 2 ELSE 0

\* The index behind the dentry at k, its name fragments and its extents,
\* each ended by a cut, or 0.
HeadOf(k) == GroupOf(GroupOf(OneOf(k, "dentry"), "name"), "extent")

\* The layout with the child count behind the children: the index behind
\* the record at k, or 0 where the stream is not laid out so.
RECURSIVE CountLastRecord(_)
RECURSIVE CountLastChildren(_, _)
CountLastRecord(k) ==
    LET body(c) ==
            IF c = 0 \/ c > Len(stream) THEN 0
            ELSE IF is_dir(stream[k].d) THEN CountLastChildren(c, 0)
            ELSE IF stream[c].t = "count" /\ stream[c].n = -1 THEN OneOf(c, "count")
            ELSE 0
    IN body(HeadOf(k))

CountLastChildren(k, parsed) ==
    IF k = 0 \/ k > Len(stream) THEN 0
    ELSE IF stream[k].t = "dentry" THEN CountLastChildren(CountLastRecord(k), parsed + 1)
    ELSE IF stream[k].t = "count" /\ stream[k].n = parsed THEN OneOf(k, "count")
    ELSE 0

\* The layout with the child count ahead of the children.
RECURSIVE CountFirstRecord(_)
RECURSIVE CountFirstChildren(_, _)
CountFirstRecord(k) ==
    LET body(c) ==
            IF OneOf(c, "count") = 0 THEN 0
            ELSE IF is_dir(stream[k].d)
                 THEN IF stream[c].n < 0 THEN 0
                      ELSE CountFirstChildren(OneOf(c, "count"), stream[c].n)
                 ELSE IF stream[c].n = -1 THEN OneOf(c, "count") ELSE 0
    IN body(HeadOf(k))

CountFirstChildren(k, n) ==
    IF k = 0 THEN 0
    ELSE IF n = 0 THEN k
    ELSE CountFirstChildren(CountFirstRecord(k), n - 1)

\* C23 as stated: once the traversal has returned, the stream is the root's
\* extents and, for every entry, its dentry, a cut, its name fragments, a cut,
\* its extents, a cut, then the records of its children and behind the last
\* child its child count; the count of a regular file is 0xFFFFFFFF (-1).
C23_CountBehindChildren ==
    pc = "init_group_descs" =>
        /\ IsCut(1)
        /\ CountLastChildren(GroupOf(2, "extent"), 0) = Len(stream) + 1

\* C23 amended: the child count stands ahead of the children.  The stream is
\* a cut, the root's extents, a cut, the root's child count, a cut, and the
\* records of that many children; the record of an entry is its dentry, a
\* cut, its name fragments, a cut, its extents, a cut, its child count, a
\* cut, and for a directory the records of as many children as the count
\* says; the count of a regular file is 0xFFFFFFFF (-1).
C23_CountAheadOfChildren ==
    pc = "init_group_descs" =>
        LET root(c) ==
               /\ OneOf(c, "count") # 0
               /\ stream[c].n >= 0
               /\ CountFirstChildren(OneOf(c, "count"), stream[c].n) = Len(stream) + 1
        IN /\ IsCut(1)
           /\ root(GroupOf(2, "extent"))

\* The traversal has returned from a volume with a directory below the
\* root that has children, and a regular file.
C23_Witness ==
    /\ pc = "init_group_descs"
    /\ \E k \in 1..Len(stream) :
          /\ stream[k].t = "dentry" /\ is_dir(stream[k].d)
          /\ stream[HeadOf(k)].t = "count" /\ stream[HeadOf(k)].n > 0
    /\ \E k \in 1..Len(stream) : stream[k].t = "count" /\ stream[k].n = -1

(***************************************************************************)
(* C24                                                                     *)
(***************************************************************************)
\* The calls of register_extent for an inode: for its data extents (added
\* to the tree) and for the blocks of its tree nodes.
RegisteredFor(inode_no, node) ==
    {k \in 1..Len(registered) : registered[k].inode = inode_no /\ registered[k].node = node}

RECURSIVE BlocksOfCalls(_)
BlocksOfCalls(S) ==
    IF S = {} THEN 0
    ELSE LET k == CHOOSE x \in S : TRUE
         IN registered[k].end - registered[k].begin + BlocksOfCalls(S \ {k})

\* The extents found in the tree of an inode: in its root and in its leaves.
TreeEntries(inode_no) ==
    LET header == inodes[inode_no].ext_header
    IN IF header.eh_depth = 0 THEN header.entries
       ELSE SelectSeq(header.entries, LAMBDA e : e.ee_len # -1) \o LeavesFrom(header, 1)

\* C24: when the conversion is done, i_blocks of every inode is the number
\* of blocks of the data extents registered for it plus the number of blocks
\* allocated for the nodes of its extent tree, in units of 512 bytes, and no
\* block of a tree node lies in an extent of the inode's tree.
C24_BlocksCountDataAndNodes ==
    pc = "done" =>
        \A inode_no \in DOMAIN inodes :
            /\ inodes[inode_no].i_blocks
                 = ((BlocksOfCalls(RegisteredFor(inode_no, FALSE))
                       + Cardinality(RegisteredFor(inode_no, TRUE))) * block_size) \div 512
            /\ \A k \in RegisteredFor(inode_no, TRUE) :
                  /\ registered[k].end = registered[k].begin + 1
                  /\ \A j \in 1..Len(TreeEntries(inode_no)) :
                        LET e == TreeEntries(inode_no)[j]
                        IN registered[k].begin \notin e.ee_start..(e.ee_start + e.ee_len - 1)

\* A conversion is done in which an inode has a tree node and more than four
\* data extents.
C24_Witness ==
    /\ pc = "done"
    /\ \E inode_no \in DOMAIN inodes :
          /\ RegisteredFor(inode_no, TRUE) # {}
          /\ Cardinality(RegisteredFor(inode_no, FALSE)) > 4
          /\ inodes[inode_no].i_blocks > 0

(***************************************************************************)
(* C25                                                                     *)
(***************************************************************************)
\* The clusters that hold a block of the directory of an inode.
DirBlocksOf(inode_no) ==
    {c \in DOMAIN image : image[c].kind = "e4dir" /\ image[c].tok = inode_no}

DirInodes == {inode_no \in DOMAIN inodes : inodes[inode_no].is_dir}

\* C25: when the conversion is done, in every block of every directory the
\* first dentry is at offset 0, each further dentry written to the block is
\* at the offset of the one before plus its rec_len, and the last dentry
\* ends at the end of the block; and the size of the directory's inode is
\* the number of its blocks times block_size.
C25_DentriesFillBlocks ==
    pc = "done" =>
        \A inode_no \in DirInodes :
            /\ \A c \in DirBlocksOf(inode_no) :
                  LET ents == image[c].ents
                  IN /\ ents # <<>>
                     /\ ents[1].off = 0
                     /\ \A k \in 1..(Len(ents) - 1) :
                           ents[k + 1].off = ents[k].off + ents[k].rec_len
                     /\ ents[Len(ents)].off + ents[Len(ents)].rec_len = dir_block_size
            /\ inodes[inode_no].i_size = Cardinality(DirBlocksOf(inode_no)) * block_size

(***************************************************************************)
(* C26                                                                     *)
(***************************************************************************)
\* The group add_extent_to_block_bitmap derives for a block.
GroupOfBlock(block_no) == (block_no - sb.s_first_data_block) \div sb.s_blocks_per_group

\* C26: every extent add_extent_to_block_bitmap has been called with (data
\* extents of files, blocks of directories, blocks of extent tree nodes) is
\* not empty and all its blocks are blocks of the group of its first block,
\* a group of the file system.
C26_ExtentInOneGroup ==
    \A k \in 1..Len(registered) :
        LET r == registered[k]
        IN /\ r.begin < r.end
           /\ GroupOfBlock(r.begin) \in 0..(block_group_count - 1)
           /\ \A b \in r.begin..(r.end - 1) :
                 /\ GroupOfBlock(b) = GroupOfBlock(r.begin)
                 /\ b < sb.s_blocks_count

(***************************************************************************)
(* C27                                                                     *)
(***************************************************************************)
\* C27: a name record of the archiver was copied as a piece of a long name
\* (lfn_cpy) if and only if the low four attribute bits of the entry it was
\* copied from are all set; the name of every other entry, one with some of
\* the bits read-only, hidden and system included, was read from its 8.3
\* name (read_short_name), and that entry is the dentry recorded before it.
\* (While the traversal runs; a crash leaves records reserved and not filled.)
C27_LongNameIffAttrsLfn ==
    \A k \in 1..Len(stream) :
        (pc = "traverse" /\ stream[k].t = "name") =>
            /\ (stream[k].n = 1) <=> (stream[k].d.attrs % 16 = 15)
            /\ stream[k].n = 0 =>
                  /\ k > 2
                  /\ stream[k - 2].t = "dentry"
                  /\ stream[k - 2].d = stream[k].d

(***************************************************************************)
(* C28                                                                     *)
(***************************************************************************)
\* a deleted entry, a dot entry or a volume label
IsSkipped(d) ==
    \/ d.first = 229
    \/ d.first = 46
    \/ (d.attrs % 16 # 15 /\ (d.attrs \div 8) % 2 = 1)

\* the entries of directory o that are to be counted
IsCounted(e) == e.t = "obj"

\* C28: while traverse runs and when it has returned, no dentry record and
\* no name record of the archiver comes from a deleted entry, a dot entry or
\* a volume label (the extent records are those of the dentry records), and
\* when it has returned the child count of the root and of every directory
\* recorded is the number of its entries that are none of these and no
\* long-name entries.
C28_SkippedEntriesLeaveNoRecord ==
    /\ pc \in {"traverse", "init_group_descs"} =>
          \A k \in 1..Len(stream) :
              stream[k].t \in {"dentry", "name"} => ~IsSkipped(stream[k].d)
    /\ pc = "init_group_descs" =>
          LET counted(o) == Len(SelectSeq(volume.tree[o].entries, IsCounted))
          IN /\ stream[GroupOf(2, "extent")].t = "count"
             /\ stream[GroupOf(2, "extent")].n = counted(1)
             /\ \A k \in 1..Len(stream) :
                   (stream[k].t = "dentry" /\ is_dir(stream[k].d)) =>
                       /\ HeadOf(k) \in 1..Len(stream)
                       /\ stream[HeadOf(k)].t = "count"
                       /\ stream[HeadOf(k)].n = counted(stream[k].d.id)

(***************************************************************************)
(* C29                                                                     *)
(***************************************************************************)
\* C29: no call of allocate_extent leaves index_in_fat or
\* blocked_extent_current lower than it found it, and the clusters of the
\* extent a call returns lie behind the index_in_fat the call found and not
\* behind the one it leaves: no cluster is looked at by two calls.
C29_CursorsNeverGoBack ==
    [][/\ allocator'.index_in_fat >= allocator.index_in_fat
       /\ allocator'.blocked_extent_current >= allocator.blocked_extent_current
       /\ Len(issued') > Len(issued) =>
             LET result == issued'[Len(issued')]
             IN /\ result.physical_start > allocator.index_in_fat
                /\ result.physical_start + result.length - 1 <= allocator'.index_in_fat]_vars

(***************************************************************************)
(* C30                                                                     *)
(***************************************************************************)
\* the number a lo/hi pair of two 16-bit halves holds
ValueOf(p) == p.lo + 65536 * p.hi

RECURSIVE SumOfGroups(_, _)
SumOfGroups(count(_), i) ==
    IF i > Len(group_descs) THEN 0 ELSE count(group_descs[i]) + SumOfGroups(count, i + 1)

FreeBlocksOf(bg) == ValueOf(bg.bg_free_blocks_count)

FreeInodesOf(bg) == ValueOf(bg.bg_free_inodes_count)

\* C30: from init_ext4_group_descs on, after every step of the builder, each
\* group's bg_free_blocks_count is the number of its blocks whose bit is not
\* set in its block bitmap and each group's bg_free_inodes_count the number
\* of its inodes whose bit is not set in its inode bitmap; and when
\* finalize_block_groups_on_disk has run, the free blocks and free inodes of
\* the superblock are the sums of the groups' counts.
C30_CountersAgreeWithBitmaps ==
    /\ pc \in {"build_root", "build_tree", "lost_found", "finalize", "done"} =>
          \A i \in 1..Len(group_descs) :
              /\ group_descs[i].bg_free_blocks_count
                    = set_lo_hi(block_group_block_count(i - 1)
                                  - Cardinality(group_descs[i].block_bitmap
                                                  \cap (0..(block_group_block_count(i - 1) - 1))))
              /\ group_descs[i].bg_free_inodes_count
                    = set_lo_hi(sb.s_inodes_per_group
                                  - Cardinality(group_descs[i].inode_bitmap
                                                  \cap (0..(sb.s_inodes_per_group - 1))))
    /\ pc = "done" =>
          /\ sb.s_free_blocks_count_lo = set_lo_hi(SumOfGroups(FreeBlocksOf, 1))
          /\ sb.s_free_blocks_count_hi = 0
          /\ sb.s_free_inodes_count = set_lo_hi(SumOfGroups(FreeInodesOf, 1))

====
